---- MODULE Spec2Model ----
(***************************************************************************)
(* Model of the image counter bot: the SQLite counter store                *)
(* (src/src/database/repository.py), the event handlers                    *)
(* (src/src/bot/handlers.py) and the report builder                        *)
(* (src/src/services/sheets.py).                                           *)
(*                                                                         *)
(* A table is a function whose DOMAIN is the set of primary keys present.  *)
(* A stored date 'YYYY-MM-DD' is a day number: the text order of such      *)
(* dates is the order of the day numbers.                                  *)
(***************************************************************************)
EXTENDS Integers, Sequences, FiniteSets, TLC

\* ---------------------------------------------------------------- bounds
\* last day number the clock reaches
MaxDay == 2
\* last day number the clock reaches while increments are in flight
MaxCountDay == 1
\* last day number the clock reaches while reactions are counted
MaxReactDay == 1
\* last day number the clock reaches in the report runs
MaxReportDay == 1
\* cap on the total of the image counts in the report runs
MaxReportCount == 2
\* cap on the total of the image counts issued in a run
MaxCount == 3
\* cap on a single reaction counter
MaxReact == 2
\* cap on the total of the reaction counters in the report runs
MaxReportReact == 2
\* cap on the total of the image counts in the report runs with reactions
MaxReactReportCount == 1
\* last day of the clock in the handler runs
MaxPhotoDay == 1
\* cap on the photo messages counted in the handler runs
MaxPhotoCount == 2
\* longest text after the command word of /set_topic_name
MaxArgLen == 4
\* number of concurrent callers of increment_image_count
NumCallers == 2

\* ------------------------------------------------------------ input sets
Chats == {100, 200}
Topics == {0, 5}
Messages == {1, 2}
Days == 0..MaxDay
\* the literal of repository.py:32 and :109, transliterated
DEFAULT_CITY == "Ne ukazan"
DEFAULT_TYPE == "Ne ukazan"
PRODUCTION_TYPE == "Produktsiya"
\* cities in the order of ORDER BY city (the source literal is Cyrillic and sorts
\* after every Latin name)
CityOrder == <<"Springfield", DEFAULT_CITY>>
Cities == {CityOrder[i] : i \in 1..Len(CityOrder)}
TOPIC_TYPES == <<"Spisanie Produktov", "Chistota", "Vyruchka i zakupki", "Zagotovki",
                 "Obsuzhdenie", "Brendirovannaya upakovka", "Produktsiya">>
\* labels given to set_topic_type: unset, two of the fixed list, one outside it
TypeInputs == {DEFAULT_TYPE, "Chistota", PRODUCTION_TYPE, "Prochee"}
TitleInputs == {"Kitchen"}
ChatTitleInputs == {"Cafe"}
None == "None"

VARIABLES
    active_chats,     \* chat_id -> [created_at, city]
    image_counts,     \* <<chat_id, topic_id, date>> -> count
    chat_titles,      \* chat_id -> title
    topic_titles,     \* <<chat_id, topic_id>> -> [title, type]
    reaction_counts,  \* <<chat_id, topic_id, date>> -> [positive_count, negative_count]
    message_topics,   \* <<chat_id, message_id>> -> [topic_id, created_at]
    utc_date,         \* the day of SQLite's date('now')
    msk_date,         \* the day in TIMEZONE (Europe/Moscow, UTC+3)
    COUNT_EACH_PHOTO_IN_ALBUM,  \* the configuration toggle
    inflight,         \* caller -> the increment_image_count call it is inside, or Idle;
                      \* overlapped: another caller was inside it for the same row
    call,             \* the last call and what it returned
    net_active,       \* history: chats added and not removed since
    issued,           \* history: <<chat_id, topic_id, date>> -> total of the increments issued
    scheduler,        \* SyncScheduler: _running, where its two tasks are, and the
                      \* callers of stop() and of force_sync()
    jobs,             \* the executor: job -> where the blocking call it runs is
    sink,             \* the report sheet: whether row 1 holds the headers, and the
                      \* data rows by sheet row number
    reader            \* the reads of one sync_to_sheets call, query by query: where
                      \* it is, what it has read, and (history) the states the
                      \* store has been in since the call began

store == <<active_chats, image_counts, chat_titles, topic_titles, reaction_counts,
           message_topics>>
clock == <<utc_date, msk_date>>
background == <<scheduler, jobs, sink, reader>>
vars == <<active_chats, image_counts, chat_titles, topic_titles, reaction_counts,
          message_topics, utc_date, msk_date, COUNT_EACH_PHOTO_IN_ALBUM, inflight,
          call, net_active, issued, scheduler, jobs, sink, reader>>

\* --------------------------------------------------------------- helpers
EmptyTable == [k \in {} |-> 0]
Put(table, key, row) ==
    [k \in DOMAIN table \cup {key} |-> IF k = key THEN row ELSE table[k]]
Remove(table, keys) == [k \in DOMAIN table \ keys |-> table[k]]
Max0(x) == IF x > 0 THEN x ELSE 0

RECURSIVE SumOver(_, _)
SumOver(f, keys) ==
    IF keys = {} THEN 0
    ELSE LET k == CHOOSE x \in keys : TRUE IN f[k] + SumOver(f, keys \ {k})

Total(table) == SumOver(table, DOMAIN table)

\* The last call, every field of one type in every state: the operation, its
\* arguments (0 or "" where it has none), and what it returned: ok (a bool result),
\* ret (a number result) or out (a text result), or the exception it raised.
NoCall == [op |-> "init", chat_id |-> 0, topic_id |-> 0, message_id |-> 0,
           num |-> 0, num2 |-> 0, text |-> "", ok |-> FALSE, ret |-> 0, out |-> "",
           exc |-> None]

\* a caller outside increment_image_count
Idle == [busy |-> FALSE, chat_id |-> 0, topic_id |-> 0, count |-> 0, date |-> 0,
         overlapped |-> FALSE]

\* SyncScheduler after __init__: not running, no task created; nobody has called
\* stop() or force_sync()
NotStarted == [running |-> FALSE, sync_task |-> "none", cleanup_task |-> "none",
               stop |-> "none", force |-> "none"]

\* The blocking calls handed to the executor: sync_to_sheets by _sync_loop ("sync")
\* and by force_sync ("force"), cleanup_old_message_topics by _cleanup_loop. rows
\* are the report rows sync_to_sheets has built, written the rows written so far.
Jobs == {"sync", "force", "cleanup"}
NoJob == [pc |-> "idle", rows |-> <<>>, written |-> 0]

\* sync_to_sheets of the job is handed to the executor and has not returned
InCycle(job) ==
    jobs[job].pc \in {"queued", "read", "ensure", "clear", "header", "batch", "resize"}

\* the sheet with no values
EmptySheet == [header |-> FALSE, rows |-> EmptyTable]

\* no sync_to_sheets call is reading
NoReader == [pc |-> "idle", dates |-> <<>>, cities |-> <<>>, cells |-> <<>>,
             rows |-> <<>>, seen |-> <<>>]

\* ----------------------------------------------------------------- clock
\* the date of the server's clock in place of the date in TIMEZONE
_get_current_date_utc == utc_date

\* datetime.now(ZoneInfo(TIMEZONE)).strftime("%Y-%m-%d")
_get_current_date == msk_date

\* Moscow is three hours ahead of UTC: its day changes first, UTC's follows.
MidnightMoscow(last_day) ==
    /\ msk_date = utc_date
    /\ msk_date < last_day
    /\ msk_date' = msk_date + 1
    /\ UNCHANGED <<store, utc_date, COUNT_EACH_PHOTO_IN_ALBUM, background, inflight, net_active, issued>>

MidnightUTC ==
    /\ msk_date = utc_date + 1
    /\ utc_date' = utc_date + 1
    /\ UNCHANGED <<store, msk_date, COUNT_EACH_PHOTO_IN_ALBUM, background, inflight, net_active, issued>>

\* the day changes, recorded in place of a call
Midnight(last_day) ==
    /\ MidnightMoscow(last_day) \/ MidnightUTC
    /\ call' = [NoCall EXCEPT !.op = "midnight"]

\* ---------------------------------------------------------- active chats
\* the INSERT without the except clause: the duplicate key propagates
add_active_chat_uncaught(table, chat_id, date) ==
    IF chat_id \in DOMAIN table
    THEN [ret |-> FALSE, exc |-> "IntegrityError", table |-> table]
    ELSE [ret |-> TRUE, exc |-> None,
          table |-> Put(table, chat_id, [created_at |-> date, city |-> DEFAULT_CITY])]

\* INSERT; sqlite3.IntegrityError (the primary key exists) is caught: False
add_active_chat(table, chat_id, date) ==
    IF chat_id \in DOMAIN table
    THEN [ret |-> FALSE, exc |-> None, table |-> table]
    ELSE [ret |-> TRUE, exc |-> None,
          table |-> Put(table, chat_id, [created_at |-> date, city |-> DEFAULT_CITY])]

\* the DELETE without effect: the row stays
remove_active_chat_keep(table, chat_id) ==
    [ret |-> chat_id \in DOMAIN table, table |-> table]

remove_active_chat(table, chat_id) ==
    [ret |-> chat_id \in DOMAIN table, table |-> Remove(table, {chat_id})]

is_chat_active(table, chat_id) == chat_id \in DOMAIN table

get_all_active_chats(table) == DOMAIN table

\* an upsert in place of the UPDATE: it creates the row of a chat that is not active
set_chat_city_upsert(table, chat_id, city) ==
    IF chat_id \in DOMAIN table
    THEN [ret |-> TRUE, table |-> [table EXCEPT ![chat_id].city = city]]
    ELSE [ret |-> TRUE, table |-> Put(table, chat_id, [created_at |-> 0, city |-> city])]

\* UPDATE active_chats SET city = ? WHERE chat_id = ?; returns rowcount > 0
set_chat_city(table, chat_id, city) ==
    IF chat_id \in DOMAIN table
    THEN [ret |-> TRUE, table |-> [table EXCEPT ![chat_id].city = city]]
    ELSE [ret |-> FALSE, table |-> table]

get_chat_city(table, chat_id) ==
    IF chat_id \in DOMAIN table THEN table[chat_id].city ELSE DEFAULT_CITY

\* Each store operation comes twice: its effect on the store, and (Call...) the
\* effect together with the record of the call and of what it returned.
AddActiveChat(chat_id) ==
    /\ active_chats' = add_active_chat(active_chats, chat_id, _get_current_date).table
    /\ net_active' = net_active \cup {chat_id}
    /\ UNCHANGED <<image_counts, chat_titles, topic_titles, reaction_counts,
                   message_topics, clock, COUNT_EACH_PHOTO_IN_ALBUM, background, inflight, issued>>

CallAddActiveChat(chat_id) ==
    LET r == add_active_chat(active_chats, chat_id, _get_current_date) IN
    /\ AddActiveChat(chat_id)
    /\ call' = [NoCall EXCEPT !.op = "add_active_chat", !.chat_id = chat_id,
                              !.ok = r.ret, !.exc = r.exc]

RemoveActiveChat(chat_id) ==
    /\ active_chats' = remove_active_chat(active_chats, chat_id).table
    /\ net_active' = net_active \ {chat_id}
    /\ UNCHANGED <<image_counts, chat_titles, topic_titles, reaction_counts,
                   message_topics, clock, COUNT_EACH_PHOTO_IN_ALBUM, background, inflight, issued>>

CallRemoveActiveChat(chat_id) ==
    /\ RemoveActiveChat(chat_id)
    /\ call' = [NoCall EXCEPT !.op = "remove_active_chat", !.chat_id = chat_id,
                              !.ok = remove_active_chat(active_chats, chat_id).ret]

CallIsChatActive(chat_id) ==
    /\ call' = [NoCall EXCEPT !.op = "is_chat_active", !.chat_id = chat_id,
                              !.ok = is_chat_active(active_chats, chat_id)]
    /\ UNCHANGED <<store, clock, COUNT_EACH_PHOTO_IN_ALBUM, background, inflight, net_active, issued>>

SetChatCity(chat_id, city) ==
    /\ active_chats' = set_chat_city(active_chats, chat_id, city).table
    /\ UNCHANGED <<image_counts, chat_titles, topic_titles, reaction_counts,
                   message_topics, clock, COUNT_EACH_PHOTO_IN_ALBUM, background, inflight,
                   net_active, issued>>

CallSetChatCity(chat_id, city) ==
    /\ SetChatCity(chat_id, city)
    /\ call' = [NoCall EXCEPT !.op = "set_chat_city", !.chat_id = chat_id,
                              !.text = city,
                              !.ok = set_chat_city(active_chats, chat_id, city).ret]

CallGetChatCity(chat_id) ==
    /\ call' = [NoCall EXCEPT !.op = "get_chat_city", !.chat_id = chat_id,
                              !.out = get_chat_city(active_chats, chat_id)]
    /\ UNCHANGED <<store, clock, COUNT_EACH_PHOTO_IN_ALBUM, background, inflight, net_active, issued>>

\* ---------------------------------------------------------- image counts
\* an upsert whose conflict branch overwrites the count instead of adding to it
increment_image_count_overwrite(table, chat_id, topic_id, date, count) ==
    Put(table, <<chat_id, topic_id, date>>, count)

\* INSERT ... ON CONFLICT(chat_id, topic_id, date) DO UPDATE SET count = count + ?:
\* one statement, applied to the row of the date the caller computed before it
increment_image_count(table, chat_id, topic_id, date, count) ==
    LET key == <<chat_id, topic_id, date>> IN
    IF key \in DOMAIN table
    THEN [table EXCEPT ![key] = table[key] + count]
    ELSE Put(table, key, count)

get_image_count(table, chat_id, topic_id, date) ==
    LET key == <<chat_id, topic_id, date>> IN
    IF key \in DOMAIN table THEN table[key] ELSE 0

get_unique_dates(table) == {key[3] : key \in DOMAIN table}

\* increment_image_count, line 151: the caller reads today's date
BeginIncrement(caller, chat_id, topic_id, count) ==
    /\ ~inflight[caller].busy
    /\ Total(issued) + count <= MaxCount
    /\ LET same(x) == /\ inflight[x].busy
                       /\ inflight[x].chat_id = chat_id
                       /\ inflight[x].topic_id = topic_id
                       /\ inflight[x].date = _get_current_date
       IN inflight' =
            [x \in DOMAIN inflight |->
               IF x = caller
               THEN [busy |-> TRUE, chat_id |-> chat_id, topic_id |-> topic_id,
                     count |-> count, date |-> _get_current_date,
                     overlapped |-> \E y \in DOMAIN inflight : same(y)]
               ELSE IF same(x) THEN [inflight[x] EXCEPT !.overlapped = TRUE]
               ELSE inflight[x]]
    /\ issued' = [issued EXCEPT ![<<chat_id, topic_id, _get_current_date>>] = @ + count]
    /\ call' = [NoCall EXCEPT !.op = "increment_image_count:date", !.chat_id = chat_id,
                              !.topic_id = topic_id, !.num = count]
    /\ UNCHANGED <<store, clock, COUNT_EACH_PHOTO_IN_ALBUM, background, net_active>>

\* increment_image_count, lines 152-161: the upsert statement and its commit
CommitIncrement(caller) ==
    LET c == inflight[caller] IN
    /\ c.busy
    /\ image_counts' =
         increment_image_count(image_counts, c.chat_id, c.topic_id, c.date, c.count)
    /\ inflight' = [inflight EXCEPT ![caller] = Idle]
    /\ call' = [NoCall EXCEPT !.op = "increment_image_count", !.chat_id = c.chat_id,
                              !.topic_id = c.topic_id, !.num = c.count, !.num2 = c.date,
                              !.ok = c.overlapped]
    /\ UNCHANGED <<active_chats, chat_titles, topic_titles, reaction_counts,
                   message_topics, clock, COUNT_EACH_PHOTO_IN_ALBUM, background, net_active, issued>>

\* increment_image_count by a caller that nothing interleaves with: the date read
\* and the upsert in one step
IncrementImageCount(chat_id, topic_id, count, limit) ==
    /\ Total(issued) + count <= limit
    /\ image_counts' = increment_image_count(image_counts, chat_id, topic_id,
                                             _get_current_date, count)
    /\ issued' = [issued EXCEPT ![<<chat_id, topic_id, _get_current_date>>] = @ + count]
    /\ UNCHANGED <<active_chats, chat_titles, topic_titles, reaction_counts,
                   message_topics, clock, COUNT_EACH_PHOTO_IN_ALBUM, background, inflight, net_active>>

CallGetImageCount(chat_id, topic_id, date) ==
    /\ call' = [NoCall EXCEPT !.op = "get_image_count", !.chat_id = chat_id,
                              !.topic_id = topic_id, !.num = date,
                              !.ret = get_image_count(image_counts, chat_id, topic_id, date)]
    /\ UNCHANGED <<store, clock, COUNT_EACH_PHOTO_IN_ALBUM, background, inflight, net_active, issued>>

\* ---------------------------------------------------- message -> topic index
\* INSERT OR REPLACE: the row of (chat_id, message_id) is replaced whole
\* INSERT OR IGNORE in place of INSERT OR REPLACE: the first save of a message wins
save_message_topic_ignore(table, chat_id, message_id, topic_id, date) ==
    IF <<chat_id, message_id>> \in DOMAIN table THEN table
    ELSE Put(table, <<chat_id, message_id>>, [topic_id |-> topic_id, created_at |-> date])

save_message_topic(table, chat_id, message_id, topic_id, date) ==
    Put(table, <<chat_id, message_id>>, [topic_id |-> topic_id, created_at |-> date])

\* the topic of the message, or -1 for Python's None
get_topic_by_message(table, chat_id, message_id) ==
    LET key == <<chat_id, message_id>> IN
    IF key \in DOMAIN table THEN table[key].topic_id ELSE -1

\* DELETE ... WHERE date(created_at) < date('now', '-N days'): SQLite's 'now' is UTC
old_message_topics(table, days, utc_today) ==
    {key \in DOMAIN table : table[key].created_at < utc_today - days}

cleanup_old_message_topics(table, days, utc_today) ==
    LET old == old_message_topics(table, days, utc_today) IN
    [ret |-> Cardinality(old), table |-> Remove(table, old)]

CallSaveMessageTopic(chat_id, message_id, topic_id) ==
    /\ message_topics' =
         save_message_topic(message_topics, chat_id, message_id, topic_id, _get_current_date)
    /\ call' = [NoCall EXCEPT !.op = "save_message_topic", !.chat_id = chat_id,
                              !.topic_id = topic_id, !.message_id = message_id]
    /\ UNCHANGED <<active_chats, image_counts, chat_titles, topic_titles, reaction_counts,
                   clock, COUNT_EACH_PHOTO_IN_ALBUM, background, inflight, net_active, issued>>

CallGetTopicByMessage(chat_id, message_id) ==
    /\ call' = [NoCall EXCEPT !.op = "get_topic_by_message", !.chat_id = chat_id,
                              !.message_id = message_id,
                              !.ret = get_topic_by_message(message_topics, chat_id, message_id)]
    /\ UNCHANGED <<store, clock, COUNT_EACH_PHOTO_IN_ALBUM, background, inflight, net_active, issued>>

\* a cleanup that purges the old rows of image_counts and reaction_counts as well
CallCleanupOldTables(days) ==
    LET r == cleanup_old_message_topics(message_topics, days, utc_date)
        old(table) == {key \in DOMAIN table : key[3] < utc_date - days}
    IN
    /\ message_topics' = r.table
    /\ image_counts' = Remove(image_counts, old(image_counts))
    /\ reaction_counts' = Remove(reaction_counts, old(reaction_counts))
    /\ call' = [NoCall EXCEPT !.op = "cleanup_old_message_topics", !.num = days,
                              !.ret = r.ret]
    /\ UNCHANGED <<active_chats, chat_titles, topic_titles, clock,
                   COUNT_EACH_PHOTO_IN_ALBUM, background, inflight, net_active, issued>>

CallCleanupOldMessageTopics(days) ==
    LET r == cleanup_old_message_topics(message_topics, days, utc_date) IN
    /\ message_topics' = r.table
    /\ call' = [NoCall EXCEPT !.op = "cleanup_old_message_topics", !.num = days,
                              !.ret = r.ret]
    /\ UNCHANGED <<active_chats, image_counts, chat_titles, topic_titles, reaction_counts,
                   clock, COUNT_EACH_PHOTO_IN_ALBUM, background, inflight, net_active, issued>>

\* -------------------------------------------------------- reaction counts
\* the upsert with the clamp left out of the VALUES of the INSERT
update_reaction_count_raw_insert(table, chat_id, topic_id, date, positive_delta, negative_delta) ==
    LET key == <<chat_id, topic_id, date>> IN
    IF key \in DOMAIN table
    THEN [table EXCEPT ![key] =
            [positive_count |-> Max0(table[key].positive_count + positive_delta),
             negative_count |-> Max0(table[key].negative_count + negative_delta)]]
    ELSE Put(table, key, [positive_count |-> positive_delta,
                          negative_count |-> negative_delta])

\* INSERT ... VALUES (..., MAX(0, ?), MAX(0, ?)) ON CONFLICT DO UPDATE SET
\* positive_count = MAX(0, positive_count + ?), negative_count = MAX(0, negative_count + ?)
update_reaction_count(table, chat_id, topic_id, date, positive_delta, negative_delta) ==
    LET key == <<chat_id, topic_id, date>> IN
    IF key \in DOMAIN table
    THEN [table EXCEPT ![key] =
            [positive_count |-> Max0(table[key].positive_count + positive_delta),
             negative_count |-> Max0(table[key].negative_count + negative_delta)]]
    ELSE Put(table, key, [positive_count |-> Max0(positive_delta),
                          negative_count |-> Max0(negative_delta)])

UpdateReactionCount(chat_id, topic_id, positive_delta, negative_delta, limit) ==
    LET key == <<chat_id, topic_id, _get_current_date>>
        new == update_reaction_count(reaction_counts, chat_id, topic_id,
                                     _get_current_date, positive_delta, negative_delta)
    IN
    /\ new[key].positive_count <= limit
    /\ new[key].negative_count <= limit
    /\ reaction_counts' = new
    /\ UNCHANGED <<active_chats, image_counts, chat_titles, topic_titles, message_topics,
                   clock, COUNT_EACH_PHOTO_IN_ALBUM, background, inflight, net_active, issued>>

\* call.ok records whether the call created the row
CallUpdateReactionCount(chat_id, topic_id, positive_delta, negative_delta) ==
    /\ UpdateReactionCount(chat_id, topic_id, positive_delta, negative_delta, MaxReact)
    /\ call' = [NoCall EXCEPT !.op = "update_reaction_count", !.chat_id = chat_id,
                              !.topic_id = topic_id, !.num = positive_delta,
                              !.num2 = negative_delta,
                              !.ok = <<chat_id, topic_id, _get_current_date>>
                                        \notin DOMAIN reaction_counts]

\* ------------------------------------------------------- titles and types
\* f"Topik {topic_id}", the placeholder title of set_topic_type and get_topic_title
PlaceholderTitle(topic_id) == "Topik " \o ToString(topic_id)

update_chat_title(table, chat_id, title) == Put(table, chat_id, title)

\* INSERT OR REPLACE in place of the upsert: the row is rewritten with its defaults
update_topic_title_replace(table, chat_id, topic_id, title) ==
    Put(table, <<chat_id, topic_id>>, [title |-> title, type |-> DEFAULT_TYPE])

\* INSERT with type DEFAULT_TYPE, ON CONFLICT DO UPDATE SET title
update_topic_title(table, chat_id, topic_id, title) ==
    LET key == <<chat_id, topic_id>> IN
    IF key \in DOMAIN table
    THEN [table EXCEPT ![key].title = title]
    ELSE Put(table, key, [title |-> title, type |-> DEFAULT_TYPE])

\* INSERT with the placeholder title, ON CONFLICT DO UPDATE SET type; returns True
set_topic_type(table, chat_id, topic_id, topic_type) ==
    LET key == <<chat_id, topic_id>> IN
    IF key \in DOMAIN table
    THEN [table EXCEPT ![key].type = topic_type]
    ELSE Put(table, key, [title |-> PlaceholderTitle(topic_id), type |-> topic_type])

get_topic_type(table, chat_id, topic_id) ==
    LET key == <<chat_id, topic_id>> IN
    IF key \in DOMAIN table THEN table[key].type ELSE DEFAULT_TYPE

get_chat_title(table, chat_id) ==
    IF chat_id \in DOMAIN table THEN table[chat_id] ELSE ToString(chat_id)

get_topic_title(table, chat_id, topic_id) ==
    LET key == <<chat_id, topic_id>> IN
    IF topic_id = 0 THEN "General"
    ELSE IF key \in DOMAIN table THEN table[key].title
    ELSE PlaceholderTitle(topic_id)

get_display_name(chats, topics, chat_id, topic_id) ==
    get_chat_title(chats, chat_id) \o " | " \o get_topic_title(topics, chat_id, topic_id)

CallUpdateTopicTitle(chat_id, topic_id, title) ==
    /\ topic_titles' = update_topic_title(topic_titles, chat_id, topic_id, title)
    /\ call' = [NoCall EXCEPT !.op = "update_topic_title", !.chat_id = chat_id,
                              !.topic_id = topic_id, !.text = title]
    /\ UNCHANGED <<active_chats, image_counts, chat_titles, reaction_counts,
                   message_topics, clock, COUNT_EACH_PHOTO_IN_ALBUM, background, inflight,
                   net_active, issued>>

SetTopicType(chat_id, topic_id, topic_type) ==
    /\ topic_titles' = set_topic_type(topic_titles, chat_id, topic_id, topic_type)
    /\ UNCHANGED <<active_chats, image_counts, chat_titles, reaction_counts,
                   message_topics, clock, COUNT_EACH_PHOTO_IN_ALBUM, background, inflight,
                   net_active, issued>>

CallSetTopicType(chat_id, topic_id, topic_type) ==
    /\ SetTopicType(chat_id, topic_id, topic_type)
    /\ call' = [NoCall EXCEPT !.op = "set_topic_type", !.chat_id = chat_id,
                              !.topic_id = topic_id, !.text = topic_type, !.ok = TRUE]

\* ------------------------------------------------------ the report queries
\* the join without the filter on the topic's type
get_cities_with_data_for_date_any_type(chats, counts, topics, date) ==
    {chats[key[1]].city :
        key \in {k \in DOMAIN counts :
                    /\ k[3] = date
                    /\ k[1] \in DOMAIN chats
                    /\ <<k[1], k[2]>> \in DOMAIN topics}}

\* SELECT DISTINCT ac.city FROM active_chats ac JOIN image_counts ic JOIN topic_titles tt
\* WHERE ic.date = ? AND tt.type != DEFAULT_TYPE   (the ORDER BY is in SortCities)
get_cities_with_data_for_date(chats, counts, topics, date) ==
    {chats[key[1]].city :
        key \in {k \in DOMAIN counts :
                    /\ k[3] = date
                    /\ k[1] \in DOMAIN chats
                    /\ <<k[1], k[2]>> \in DOMAIN topics
                    /\ topics[<<k[1], k[2]>>].type # DEFAULT_TYPE}}

\* the (chat, topic) pairs the two per-city sums run over: the chats of the city in
\* active_chats, and their topics of the given type in topic_titles
CityTopics(chats, topics, city, topic_type) ==
    {key \in DOMAIN topics :
        /\ key[1] \in DOMAIN chats
        /\ chats[key[1]].city = city
        /\ topics[key].type = topic_type}

\* the sum without the filter on the chat's city
get_image_count_by_city_type_date_any_city(chats, topics, counts, city, topic_type, date) ==
    LET rows == {<<key[1], key[2], date>> :
                    key \in {k \in DOMAIN topics :
                               k[1] \in DOMAIN chats /\ topics[k].type = topic_type}}
    IN SumOver(counts, rows \cap DOMAIN counts)

get_image_count_by_city_type_date(chats, topics, counts, city, topic_type, date) ==
    LET rows == {<<key[1], key[2], date>> : key \in CityTopics(chats, topics, city, topic_type)}
    IN SumOver(counts, rows \cap DOMAIN counts)

\* the sums over the topics of every set type, not of PRODUCTION_TYPE alone
get_reaction_count_by_city_date_any_type(chats, topics, reactions, city, date) ==
    LET rows == {<<key[1], key[2], date>> :
                    key \in {k \in DOMAIN topics :
                               /\ k[1] \in DOMAIN chats
                               /\ chats[k[1]].city = city
                               /\ topics[k].type # DEFAULT_TYPE}}
        found == rows \cap DOMAIN reactions
    IN <<SumOver([k \in found |-> reactions[k].positive_count], found),
         SumOver([k \in found |-> reactions[k].negative_count], found)>>

get_reaction_count_by_city_date(chats, topics, reactions, city, date) ==
    LET rows == {<<key[1], key[2], date>> :
                    key \in CityTopics(chats, topics, city, PRODUCTION_TYPE)}
        found == rows \cap DOMAIN reactions
    IN <<SumOver([k \in found |-> reactions[k].positive_count], found),
         SumOver([k \in found |-> reactions[k].negative_count], found)>>

\* ------------------------------------------------------- the report builder
\* the stored text 'YYYY-MM-DD' of a day number: day 0 is 2024-12-30
Ymd(date) == IF date <= 1 THEN <<2024, 12, 30 + date>> ELSE <<2025, 1, date - 1>>

\* strptime("%Y-%m-%d") then strftime("%d.%m.%Y")
_format_date(date) == LET ymd == Ymd(date) IN <<ymd[3], ymd[2], ymd[1]>>

\* ORDER BY on a set of day numbers and on a set of cities
RECURSIVE SortDates(_)
SortDates(dates) ==
    IF dates = {} THEN <<>>
    ELSE LET first == CHOOSE d \in dates : \A e \in dates : d <= e
         IN <<first>> \o SortDates(dates \ {first})

\* the cities in the order opposite to ORDER BY ac.city
SortCitiesDescending(cities) ==
    LET n == Len(CityOrder) IN
    SelectSeq([i \in 1..n |-> CityOrder[n + 1 - i]], LAMBDA city : city \in cities)

SortCities(cities) ==
    SelectSeq(CityOrder, LAMBDA city : city \in cities)

\* sync_to_sheets, lines 197-209: the row of one (date, city)
ReportRow(chats, counts, topics, reactions, date, city) ==
    LET reacted == get_reaction_count_by_city_date(chats, topics, reactions, city, date) IN
    [date |-> _format_date(date),
     city |-> city,
     counts |-> [i \in 1..Len(TOPIC_TYPES) |->
                   get_image_count_by_city_type_date(chats, topics, counts, city,
                                                     TOPIC_TYPES[i], date)],
     positive |-> reacted[1],
     negative |-> reacted[2]]

\* sync_to_sheets, lines 190-209: a row per date of get_unique_dates, in order, and
\* per city of get_cities_with_data_for_date, in order
RECURSIVE ReportRows(_, _, _, _, _)
ReportRows(chats, counts, topics, reactions, dates) ==
    IF dates = <<>> THEN <<>>
    ELSE LET date == Head(dates)
             cities == SortCities(get_cities_with_data_for_date(chats, counts, topics, date))
         IN [i \in 1..Len(cities) |->
                ReportRow(chats, counts, topics, reactions, date, cities[i])]
            \o ReportRows(chats, counts, topics, reactions, Tail(dates))

\* the rows sync_to_sheets builds from the store as it is
Report ==
    ReportRows(active_chats, image_counts, topic_titles, reaction_counts,
               SortDates(get_unique_dates(image_counts)))

\* ------------------------------------------------------------------ init
Init ==
    /\ active_chats = EmptyTable
    /\ image_counts = EmptyTable
    /\ chat_titles = EmptyTable
    /\ topic_titles = EmptyTable
    /\ reaction_counts = EmptyTable
    /\ message_topics = EmptyTable
    /\ utc_date = 0
    /\ msk_date = 0
    /\ COUNT_EACH_PHOTO_IN_ALBUM = TRUE
    /\ inflight = [caller \in 1..NumCallers |-> Idle]
    /\ call = NoCall
    /\ net_active = {}
    /\ issued = [k \in Chats \X Topics \X Days |-> 0]
    /\ scheduler = NotStarted
    /\ jobs = [job \in Jobs |-> NoJob]
    /\ sink = EmptySheet
    /\ reader = NoReader

\* ------------------------------------------------- the active-chat store
NextChats ==
    \/ \E chat_id \in Chats : CallAddActiveChat(chat_id)
    \/ \E chat_id \in Chats : CallRemoveActiveChat(chat_id)
    \/ \E chat_id \in Chats : CallIsChatActive(chat_id)
    \/ \E chat_id \in Chats, city \in Cities : CallSetChatCity(chat_id, city)
    \/ \E chat_id \in Chats : CallGetChatCity(chat_id)
    \/ Midnight(MaxDay)

SpecChats == Init /\ [][NextChats]_vars

\* C1: add_active_chat returns TRUE exactly when the chat was not active before
\* the call and FALSE otherwise (never an exception); remove_active_chat returns
\* TRUE exactly when the chat was active before the call; is_chat_active returns
\* the net membership left by the adds and removes so far.
C1_AddRemoveReturns ==
    [][ /\ call'.op = "add_active_chat" =>
             /\ call'.exc = None
             /\ call'.ok = (call'.chat_id \notin DOMAIN active_chats)
        /\ call'.op = "remove_active_chat" =>
             call'.ok = (call'.chat_id \in DOMAIN active_chats)
        /\ call'.op = "is_chat_active" =>
             call'.ok = (call'.chat_id \in net_active')
        /\ \A chat_id \in Chats :
             is_chat_active(active_chats', chat_id) = (chat_id \in net_active')
      ]_vars

\* a second add of an active chat has returned FALSE
C1_Witness ==
    /\ call.op = "add_active_chat"
    /\ call.ok = FALSE
    /\ call.chat_id \in DOMAIN active_chats

\* ------------------------------------------- concurrent image-count callers
CountAmounts == {1, 2}
AgeInputs == {0, 1}
CountChats == {100}
CountMessages == {1}
CountTopics == {5}

NextCount ==
    \/ \E caller \in 1..NumCallers, chat_id \in CountChats, topic_id \in Topics,
          count \in CountAmounts : BeginIncrement(caller, chat_id, topic_id, count)
    \/ \E caller \in 1..NumCallers : CommitIncrement(caller)
    \/ \E chat_id \in CountChats, topic_id \in Topics, date \in 0..MaxCountDay :
          CallGetImageCount(chat_id, topic_id, date)
    \/ \E chat_id \in CountChats, message_id \in CountMessages, topic_id \in CountTopics :
          CallSaveMessageTopic(chat_id, message_id, topic_id)
    \/ \E days \in AgeInputs : CallCleanupOldMessageTopics(days)
    \/ Midnight(MaxCountDay)

SpecCount == Init /\ [][NextCount]_vars

Quiescent == \A caller \in 1..NumCallers : ~inflight[caller].busy

\* C2: once every increment_image_count(c, t, n) call has completed, whatever the
\* interleaving of the callers with each other, with reads and with the cleanup,
\* the stored count of each (c, t, day) equals the sum of the n issued for it.
C2_NoLostIncrement ==
    Quiescent =>
        \A key \in Chats \X Topics \X Days :
            get_image_count(image_counts, key[1], key[2], key[3]) = issued[key]

\* the last call to complete was inside increment_image_count together with another
\* call for the same row, and the row holds the sum of both
C2_Witness ==
    /\ Quiescent
    /\ call.op = "increment_image_count"
    /\ call.ok
    /\ image_counts[<<call.chat_id, call.topic_id, call.num2>>] = 3

\* ----------------------------------------------------- the reaction counters
ReactChats == {100}
ReactTopics == {5}
DeltaInputs == {-2, -1, 0, 1}

NextReact ==
    \/ \E chat_id \in ReactChats, topic_id \in ReactTopics,
          positive_delta \in DeltaInputs, negative_delta \in DeltaInputs :
          CallUpdateReactionCount(chat_id, topic_id, positive_delta, negative_delta)
    \/ Midnight(MaxReactDay)

SpecReact == Init /\ [][NextReact]_vars

RowOrZero(table, key) ==
    IF key \in DOMAIN table THEN table[key]
    ELSE [positive_count |-> 0, negative_count |-> 0]

\* C3: under any sequence of update_reaction_count calls with signed deltas, both
\* counters of every row are >= 0 in every state, and each call leaves the row of
\* (chat, topic, today) at max(0, count + delta) of the count before it, taken as 0
\* when the call creates the row, for the positive and the negative column alike.
C3_ClampedFold ==
    [][ /\ \A key \in DOMAIN reaction_counts' :
             /\ reaction_counts'[key].positive_count >= 0
             /\ reaction_counts'[key].negative_count >= 0
        /\ call'.op = "update_reaction_count" =>
             LET key == <<call'.chat_id, call'.topic_id, msk_date>>
                 before == RowOrZero(reaction_counts, key)
                 grown(count, delta) == IF count + delta > 0 THEN count + delta ELSE 0
             IN /\ key \in DOMAIN reaction_counts'
                /\ reaction_counts'[key].positive_count =
                     grown(before.positive_count, call'.num)
                /\ reaction_counts'[key].negative_count =
                     grown(before.negative_count, call'.num2)
                /\ \A other \in DOMAIN reaction_counts' \ {key} :
                     /\ other \in DOMAIN reaction_counts
                     /\ reaction_counts'[other] = reaction_counts[other]
      ]_vars

\* a first call with a negative delta created the row, clamped at 0
C3_Witness ==
    /\ call.op = "update_reaction_count"
    /\ call.ok
    /\ call.num < 0
    /\ call.num2 > 0
    /\ reaction_counts[<<call.chat_id, call.topic_id, msk_date>>] =
         [positive_count |-> 0, negative_count |-> 1]

\* a removal below zero on an existing row stayed at 0
C3_WitnessUnderflow ==
    /\ call.op = "update_reaction_count"
    /\ ~call.ok
    /\ call.num = -2
    /\ reaction_counts[<<call.chat_id, call.topic_id, msk_date>>].positive_count = 0

\* ------------------------------------------------- the message -> topic index
IndexChats == {100}

NextIndex ==
    \/ \E chat_id \in IndexChats, message_id \in Messages, topic_id \in Topics :
          CallSaveMessageTopic(chat_id, message_id, topic_id)
    \/ \E chat_id \in IndexChats, message_id \in Messages :
          CallGetTopicByMessage(chat_id, message_id)
    \/ \E days \in AgeInputs : CallCleanupOldMessageTopics(days)
    \/ Midnight(MaxDay)

SpecIndex == Init /\ [][NextIndex]_vars

\* C4: cleanup_old_message_topics(N) deletes exactly the rows more than N days old
\* and none that is N days old or newer, and returns the number deleted (0 when
\* none matches); the age is counted from today's date in the configured time
\* zone, the date save_message_topic stamps.
C4_CleanupByZoneAge ==
    [][ call'.op = "cleanup_old_message_topics" =>
          LET old == {key \in DOMAIN message_topics :
                        _get_current_date - message_topics[key].created_at > call'.num}
          IN /\ message_topics' = Remove(message_topics, old)
             /\ call'.ret = Cardinality(old)
      ]_vars

\* ------------------------------------------------------- the report builder
\* the topics of the report runs: two topics of one chat, one of another
ReportTopics == {<<100, 0>>, <<100, 5>>, <<200, 5>>}
\* the chat that is assigned a city (the other stays in the default city)
ReportCityChats == {100}
ReportTypeInputs == {DEFAULT_TYPE, "Chistota", PRODUCTION_TYPE}

\* the store's operations, the calls themselves not recorded
NextReport ==
    \/ \E chat_id \in Chats : AddActiveChat(chat_id) /\ call' = NoCall
    \/ \E chat_id \in Chats : RemoveActiveChat(chat_id) /\ call' = NoCall
    \/ \E chat_id \in ReportCityChats, city \in Cities :
          SetChatCity(chat_id, city) /\ call' = NoCall
    \/ \E key \in ReportTopics, topic_type \in ReportTypeInputs :
          SetTopicType(key[1], key[2], topic_type) /\ call' = NoCall
    \/ \E key \in ReportTopics :
          IncrementImageCount(key[1], key[2], 1, MaxReportCount) /\ call' = NoCall
    \/ MidnightMoscow(MaxReportDay) /\ call' = NoCall
    \/ MidnightUTC /\ call' = NoCall

SpecReport == Init /\ [][NextReport]_vars

RowsOf(date, city) ==
    {i \in 1..Len(Report) : Report[i].date = _format_date(date) /\ Report[i].city = city}

\* the (chat, topic) pairs with an image-count row on the date whose chat is assigned
\* to the city and whose topic has a set type
TypedActivity(date, city) ==
    {key \in Chats \X Topics :
        /\ <<key[1], key[2], date>> \in DOMAIN image_counts
        /\ key[1] \in DOMAIN active_chats
        /\ active_chats[key[1]].city = city
        /\ get_topic_type(topic_titles, key[1], key[2]) # DEFAULT_TYPE}

\* C5: the report has a row for (date, city) if and only if some chat assigned to the
\* city has an image-count row on that date for a topic whose type is set; and in a
\* row, the column of every topic-type with no activity holds 0.
C5_RowIffTypedActivity ==
    \A date \in Days, city \in Cities :
        /\ (RowsOf(date, city) # {}) = (TypedActivity(date, city) # {})
        /\ \A i \in RowsOf(date, city), col \in 1..Len(TOPIC_TYPES) :
             (\A key \in TypedActivity(date, city) :
                 get_topic_type(topic_titles, key[1], key[2]) # TOPIC_TYPES[col])
             => Report[i].counts[col] = 0

\* Springfield has a row on a date, with a zero in the production column, while the
\* default city's only counted activity that date is on an untyped topic: no row
C5_Witness ==
    \E date \in Days :
        /\ \E i \in RowsOf(date, "Springfield") :
              Report[i].counts[2] > 0 /\ Report[i].counts[7] = 0
        /\ RowsOf(date, DEFAULT_CITY) = {}
        /\ 200 \in DOMAIN active_chats
        /\ <<200, 5, date>> \in DOMAIN image_counts

\* the column index of a fixed topic-type
Column(topic_type) == CHOOSE col \in 1..Len(TOPIC_TYPES) : TOPIC_TYPES[col] = topic_type

\* the image counts of the date on topics of the type in chats assigned to the city
CountedFor(date, city, topic_type) ==
    LET keys == {key \in Chats \X Topics :
                    /\ is_chat_active(active_chats, key[1])
                    /\ get_chat_city(active_chats, key[1]) = city
                    /\ <<key[1], key[2]>> \in DOMAIN topic_titles
                    /\ get_topic_type(topic_titles, key[1], key[2]) = topic_type}
    IN SumOver([key \in keys |-> get_image_count(image_counts, key[1], key[2], date)], keys)

\* C6: in every report row of (date, city), the column of each fixed topic-type T
\* holds the sum of the image counts of that date over every chat assigned to the city
\* and every topic of the chat whose type is T.
C6_ColumnIsSum ==
    \A date \in Days, city \in Cities :
        \A i \in RowsOf(date, city), col \in 1..Len(TOPIC_TYPES) :
            Report[i].counts[col] = CountedFor(date, city, TOPIC_TYPES[col])

\* the scenario: topic 5 of chat 100 typed "Chistota", the chat's city Springfield,
\* two photos on topic 5 today: 2 in that column, 0 in every other
C6_Witness ==
    /\ get_topic_type(topic_titles, 100, 5) = "Chistota"
    /\ get_chat_city(active_chats, 100) = "Springfield"
    /\ get_image_count(image_counts, 100, 5, _get_current_date) = 2
    /\ \E i \in RowsOf(_get_current_date, "Springfield") :
          \A col \in 1..Len(TOPIC_TYPES) :
              Report[i].counts[col] = IF col = Column("Chistota") THEN 2 ELSE 0

\* ------------------------------------------- the report's reaction columns
\* types given to the topics: topic 0 of chat 100 has no stored type until it is
\* typed as production; topic 5 of chat 200 can be stored with the default type
ReactTypeInputs == {<<100, 0, PRODUCTION_TYPE>>,
                    <<100, 5, "Chistota">>, <<100, 5, PRODUCTION_TYPE>>,
                    <<200, 5, PRODUCTION_TYPE>>, <<200, 5, DEFAULT_TYPE>>}
ReactImageTopics == {<<100, 5>>, <<200, 5>>}
ReactionInputs == {<<1, 0>>, <<0, 1>>}

ReactionTotal(table) ==
    SumOver([key \in DOMAIN table |->
                table[key].positive_count + table[key].negative_count], DOMAIN table)

NextReactReport ==
    \/ \E chat_id \in Chats : AddActiveChat(chat_id) /\ call' = NoCall
    \/ \E chat_id \in Chats : RemoveActiveChat(chat_id) /\ call' = NoCall
    \/ \E chat_id \in ReportCityChats, city \in Cities :
          SetChatCity(chat_id, city) /\ call' = NoCall
    \/ \E typed \in ReactTypeInputs :
          SetTopicType(typed[1], typed[2], typed[3]) /\ call' = NoCall
    \/ \E key \in ReactImageTopics :
          IncrementImageCount(key[1], key[2], 1, MaxReactReportCount) /\ call' = NoCall
    \/ \E key \in ReportTopics, delta \in ReactionInputs :
          /\ ReactionTotal(reaction_counts) < MaxReportReact
          /\ UpdateReactionCount(key[1], key[2], delta[1], delta[2], MaxReportReact)
          /\ call' = NoCall
    \/ MidnightMoscow(MaxReportDay) /\ call' = NoCall
    \/ MidnightUTC /\ call' = NoCall

SpecReactReport == Init /\ [][NextReactReport]_vars

\* the reaction rows of the date on production topics of chats assigned to the city
ProductionReactions(date, city) ==
    {key \in DOMAIN reaction_counts :
        /\ key[3] = date
        /\ is_chat_active(active_chats, key[1])
        /\ get_chat_city(active_chats, key[1]) = city
        /\ <<key[1], key[2]>> \in DOMAIN topic_titles
        /\ get_topic_type(topic_titles, key[1], key[2]) = PRODUCTION_TYPE}

\* C7: in every report row of (date, city) the two reaction columns hold the sums of
\* positive_count and negative_count of that date over the chats assigned to the city
\* and over their topics of the production type only; reactions on topics of another
\* type, of the default type or without a stored type add nothing.
C7_ReactionColumns ==
    \A date \in Days, city \in Cities :
        \A i \in RowsOf(date, city) :
            LET rows == ProductionReactions(date, city) IN
            /\ Report[i].positive =
                 SumOver([key \in rows |-> reaction_counts[key].positive_count], rows)
            /\ Report[i].negative =
                 SumOver([key \in rows |-> reaction_counts[key].negative_count], rows)

\* a row counts the like on a production topic and not the dislike recorded the same
\* date on topic 0 of the same chat, which has no stored type
C7_Witness ==
    \E date \in Days :
        /\ 100 \in DOMAIN active_chats
        /\ get_topic_type(topic_titles, 100, 5) = PRODUCTION_TYPE
        /\ <<100, 0>> \notin DOMAIN topic_titles
        /\ <<100, 5, date>> \in DOMAIN reaction_counts
        /\ <<100, 0, date>> \in DOMAIN reaction_counts
        /\ reaction_counts[<<100, 5, date>>].positive_count = 1
        /\ reaction_counts[<<100, 0, date>>].negative_count = 1
        /\ \E i \in RowsOf(date, active_chats[100].city) :
              Report[i].positive = 1 /\ Report[i].negative = 0

\* a row leaves out the like recorded the same date on a topic of another set type
C7_WitnessOtherType ==
    \E date \in Days :
        /\ 100 \in DOMAIN active_chats
        /\ get_topic_type(topic_titles, 100, 5) = "Chistota"
        /\ <<100, 5, date>> \in DOMAIN reaction_counts
        /\ reaction_counts[<<100, 5, date>>].positive_count = 1
        /\ \E i \in RowsOf(date, active_chats[100].city) : Report[i].positive = 0

\* ------------------------------------------------------------- handlers
\* A message as the handlers read it; None where Telegram sends no such field.
\* forum_topic_created, forum_topic_edited and reply_to_message hold the topic name
\* of the service message (reply_to_message: of the forum_topic_created it carries).
NoThread == -1
\* a forum_topic_edited that changes the icon only: its name is None
NoName == ""

get_topic_id(message) ==
    IF message.message_thread_id = NoThread \/ message.message_thread_id = 0
    THEN 0 ELSE message.message_thread_id

update_titles_from_message(chats, topics, message) ==
    LET chat_id == message.chat_id
        topic_id == get_topic_id(message)
        chats1 == IF message.chat_title # None
                  THEN update_chat_title(chats, chat_id, message.chat_title)
                  ELSE chats
        topics1 == IF message.forum_topic_created # None
                   THEN update_topic_title(topics, chat_id, topic_id,
                                           message.forum_topic_created)
                   ELSE topics
        topics2 == IF message.forum_topic_edited # None /\ message.forum_topic_edited # NoName
                   THEN update_topic_title(topics1, chat_id, topic_id,
                                           message.forum_topic_edited)
                   ELSE topics1
        topics3 == IF topic_id # 0 /\ message.reply_to_message # None
                   THEN update_topic_title(topics2, chat_id, topic_id,
                                           message.reply_to_message)
                   ELSE topics2
    IN [chat_titles |-> chats1, topic_titles |-> topics3]

\* the count the comments of the album branch describe: a photo of a media group
\* is taken as counted already
photo_count_album_once(toggle, media_group_id) ==
    IF toggle THEN 1 ELSE IF media_group_id # None THEN 0 ELSE 1

\* handle_photo, lines 173-186: how many photos the message counts for
photo_count(toggle, media_group_id) ==
    IF toggle THEN 1 ELSE IF media_group_id # None THEN 1 ELSE 1

\* the command handled only when no sync_to_sheets is running, as if the cycle ran
\* on the event loop itself
cmd_set_chat_active_after_cycle(message) ==
    /\ ~InCycle("sync")
    /\ AddActiveChat(message.chat_id)
    /\ call' = [NoCall EXCEPT !.op = "cmd_set_chat_active", !.chat_id = message.chat_id,
                              !.ok = ~is_chat_active(active_chats, message.chat_id)]

cmd_set_chat_active(message) ==
    LET r == add_active_chat(active_chats, message.chat_id, _get_current_date) IN
    /\ AddActiveChat(message.chat_id)
    /\ call' = [NoCall EXCEPT !.op = "cmd_set_chat_active", !.chat_id = message.chat_id,
                              !.ok = r.ret,
                              !.out = IF r.ret THEN "added" ELSE "already tracked"]

cmd_set_chat_inactive(message) ==
    LET r == remove_active_chat(active_chats, message.chat_id) IN
    /\ RemoveActiveChat(message.chat_id)
    /\ call' = [NoCall EXCEPT !.op = "cmd_set_chat_inactive", !.chat_id = message.chat_id,
                              !.ok = r.ret,
                              !.out = IF r.ret THEN "removed" ELSE "was not tracked"]

\* The text of a command message: present is FALSE when the message has no text
\* (message.text is None), chars are the characters of the text. The command word
\* has no whitespace in it and stands as one element.
CommandWord == <<"/set_topic_name">>
NoText == [present |-> FALSE, chars |-> <<>>]
CommandText(rest) == [present |-> TRUE, chars |-> CommandWord \o rest]

RECURSIVE lstrip(_)
lstrip(chars) ==
    IF chars # <<>> /\ Head(chars) = " " THEN lstrip(Tail(chars)) ELSE chars

RECURSIVE rstrip(_)
rstrip(chars) ==
    IF chars # <<>> /\ chars[Len(chars)] = " "
    THEN rstrip(SubSeq(chars, 1, Len(chars) - 1)) ELSE chars

\* str.strip()
strip(chars) == rstrip(lstrip(chars))

RECURSIVE FirstWord(_)
FirstWord(chars) ==
    IF chars = <<>> \/ Head(chars) = " " THEN <<>>
    ELSE <<Head(chars)>> \o FirstWord(Tail(chars))

\* str.split(maxsplit=1): the first word and, when something other than whitespace
\* follows it, the rest from its first character that is not whitespace
split_maxsplit_1(chars) ==
    LET body == lstrip(chars)
        word == FirstWord(body)
        rest == lstrip(SubSeq(body, Len(word) + 1, Len(body)))
    IN IF body = <<>> THEN <<>>
       ELSE IF rest = <<>> THEN <<word>>
       ELSE <<word, rest>>

\* the characters as one string
RECURSIVE Join(_)
Join(chars) == IF chars = <<>> THEN "" ELSE Head(chars) \o Join(Tail(chars))

\* the handler without its test of len(parts): a command with nothing after it
\* sets the empty name
topic_name_argument_unchecked(text) ==
    IF text.present
    THEN LET parts == split_maxsplit_1(text.chars) IN
         [given |-> TRUE,
          name |-> IF Len(parts) > 1 THEN Join(strip(parts[2])) ELSE ""]
    ELSE [given |-> FALSE, name |-> ""]

\* cmd_set_topic_name, lines 106-109: the name after the command word, if any
topic_name_argument(text) ==
    IF text.present
    THEN LET parts == split_maxsplit_1(text.chars) IN
         IF Len(parts) > 1
         THEN [given |-> TRUE, name |-> Join(strip(parts[2]))]
         ELSE [given |-> FALSE, name |-> ""]
    ELSE [given |-> FALSE, name |-> ""]

\* /set_topic_name: with a name the title of the topic is set, else the usage is
\* replied; call.text is the name that was set
cmd_set_topic_name(message, text) ==
    LET argument == topic_name_argument(text) IN
    /\ topic_titles' = IF argument.given
                       THEN update_topic_title(topic_titles, message.chat_id,
                                               get_topic_id(message), argument.name)
                       ELSE topic_titles
    /\ call' = [NoCall EXCEPT !.op = "cmd_set_topic_name", !.chat_id = message.chat_id,
                              !.topic_id = get_topic_id(message),
                              !.text = argument.name,
                              !.out = IF argument.given THEN "set" ELSE "usage"]
    /\ UNCHANGED <<active_chats, image_counts, chat_titles, reaction_counts,
                   message_topics, clock, COUNT_EACH_PHOTO_IN_ALBUM, background, inflight,
                   net_active, issued>>

handle_forum_topic_events(message) ==
    LET titles == update_titles_from_message(chat_titles, topic_titles, message) IN
    /\ chat_titles' = titles.chat_titles
    /\ topic_titles' = titles.topic_titles
    /\ call' = [NoCall EXCEPT !.op = "handle_forum_topic_events",
                              !.chat_id = message.chat_id,
                              !.topic_id = get_topic_id(message)]
    /\ UNCHANGED <<active_chats, image_counts, reaction_counts, message_topics, clock,
                   COUNT_EACH_PHOTO_IN_ALBUM, background, inflight, net_active, issued>>

\* handle_photo that counts without asking whether the chat is active
handle_photo_unchecked(message) ==
    LET chat_id == message.chat_id
        topic_id == get_topic_id(message)
        titles == update_titles_from_message(chat_titles, topic_titles, message)
        count == photo_count(COUNT_EACH_PHOTO_IN_ALBUM, message.media_group_id)
    IN
    /\ Total(issued) < MaxPhotoCount
    /\ chat_titles' = titles.chat_titles
    /\ topic_titles' = titles.topic_titles
    /\ image_counts' = increment_image_count(image_counts, chat_id, topic_id,
                                             _get_current_date, count)
    /\ issued' = [issued EXCEPT ![<<chat_id, topic_id, _get_current_date>>] = @ + 1]
    /\ call' = [NoCall EXCEPT !.op = "handle_photo", !.chat_id = chat_id,
                              !.topic_id = topic_id, !.message_id = message.message_id,
                              !.text = message.media_group_id, !.num = count,
                              !.ok = is_chat_active(active_chats, chat_id)]
    /\ UNCHANGED <<active_chats, reaction_counts, message_topics, clock,
                   COUNT_EACH_PHOTO_IN_ALBUM, background, inflight, net_active>>

\* The titles are updated first; an inactive chat ends the handler there. In an
\* active chat the message is counted; the display name read after it goes to the
\* log only. issued counts the photo messages handled in an active chat; call.ok
\* tells whether the chat was active.
handle_photo(message) ==
    LET chat_id == message.chat_id
        topic_id == get_topic_id(message)
        titles == update_titles_from_message(chat_titles, topic_titles, message)
        active == is_chat_active(active_chats, chat_id)
        count == photo_count(COUNT_EACH_PHOTO_IN_ALBUM, message.media_group_id)
    IN
    /\ active => Total(issued) < MaxPhotoCount
    /\ chat_titles' = titles.chat_titles
    /\ topic_titles' = titles.topic_titles
    /\ image_counts' = IF active
                       THEN increment_image_count(image_counts, chat_id, topic_id,
                                                  _get_current_date, count)
                       ELSE image_counts
    /\ issued' = IF active
                 THEN [issued EXCEPT ![<<chat_id, topic_id, _get_current_date>>] = @ + 1]
                 ELSE issued
    /\ call' = [NoCall EXCEPT !.op = "handle_photo", !.chat_id = chat_id,
                              !.topic_id = topic_id, !.message_id = message.message_id,
                              !.text = message.media_group_id,
                              !.num = IF active THEN count ELSE 0,
                              !.ok = active]
    /\ UNCHANGED <<active_chats, reaction_counts, message_topics, clock,
                   COUNT_EACH_PHOTO_IN_ALBUM, background, inflight, net_active>>

\* ---------------------------------------------------- the message handlers
PhotoChats == {100, 200}
ThreadInputs == {NoThread, 5}
MediaGroupInputs == {None, "album"}

\* a message of a chat and a thread with none of the optional fields
PlainMessage(chat_id, message_thread_id) ==
    [chat_id |-> chat_id, chat_title |-> None, message_thread_id |-> message_thread_id,
     message_id |-> 1, media_group_id |-> None, forum_topic_created |-> None,
     forum_topic_edited |-> None, reply_to_message |-> None]

CommandMessages == {PlainMessage(chat_id, 5) : chat_id \in PhotoChats}
TopicNameMessages == {PlainMessage(100, 5)}
TopicNameTexts == {CommandText(<<>>), CommandText(<<" ", "B", "a", "r">>)}

\* photo messages: never service messages, so they carry no forum_topic_created or
\* forum_topic_edited of their own
PhotoMessages ==
    {[PlainMessage(100, message_thread_id) EXCEPT
         !.chat_title = chat_title, !.media_group_id = media_group_id,
         !.reply_to_message = reply_to_message] :
       message_thread_id \in ThreadInputs,
       chat_title \in ChatTitleInputs \cup {None},
       media_group_id \in MediaGroupInputs,
       reply_to_message \in TitleInputs \cup {None}}
    \cup {PlainMessage(200, NoThread)}

\* the service messages of a topic's creation and of its edits
ForumTopicMessages ==
    {[PlainMessage(100, 5) EXCEPT !.forum_topic_created = "Kitchen"],
     [PlainMessage(100, 5) EXCEPT !.forum_topic_edited = "Bar"],
     [PlainMessage(100, 5) EXCEPT !.forum_topic_edited = NoName]}

\* the handlers are set up before polling starts; the toggle is fixed at start
InitPhoto ==
    /\ active_chats = EmptyTable
    /\ image_counts = EmptyTable
    /\ chat_titles = EmptyTable
    /\ topic_titles = EmptyTable
    /\ reaction_counts = EmptyTable
    /\ message_topics = EmptyTable
    /\ utc_date = 0
    /\ msk_date = 0
    /\ COUNT_EACH_PHOTO_IN_ALBUM \in BOOLEAN
    /\ inflight = [caller \in 1..NumCallers |-> Idle]
    /\ call = NoCall
    /\ net_active = {}
    /\ issued = [k \in Chats \X Topics \X Days |-> 0]
    /\ scheduler = NotStarted
    /\ jobs = [job \in Jobs |-> NoJob]
    /\ sink = EmptySheet
    /\ reader = NoReader

NextPhoto ==
    \/ \E message \in CommandMessages : cmd_set_chat_active(message)
    \/ \E message \in CommandMessages : cmd_set_chat_inactive(message)
    \/ \E message \in TopicNameMessages, text \in TopicNameTexts :
          cmd_set_topic_name(message, text)
    \/ \E message \in ForumTopicMessages : handle_forum_topic_events(message)
    \/ \E message \in PhotoMessages : handle_photo(message)
    \/ Midnight(MaxPhotoDay)

SpecPhoto == InitPhoto /\ [][NextPhoto]_vars

\* C8: a photo message of a chat that is not active changes no image count, creates no
\* image-count row and writes no message-index entry; of the whole store only the
\* chat title and the topic title may change.
C8_InactivePhotoCountsNothing ==
    [][(call'.op = "handle_photo" /\ ~is_chat_active(active_chats, call'.chat_id))
        => /\ image_counts' = image_counts
           /\ message_topics' = message_topics
           /\ active_chats' = active_chats
           /\ reaction_counts' = reaction_counts]_vars

\* a photo of an inactive chat was handled: it left the counts empty and stored the
\* chat's title and the topic's title
C8_Witness ==
    /\ call.op = "handle_photo"
    /\ ~call.ok
    /\ call.chat_id = 100
    /\ 100 \notin DOMAIN active_chats
    /\ image_counts = EmptyTable
    /\ 100 \in DOMAIN chat_titles
    /\ <<100, 5>> \in DOMAIN topic_titles

C10_PhotoRecordsMessageTopic ==
    [][(call'.op = "handle_photo" /\ call'.ok)
        => get_topic_by_message(message_topics', call'.chat_id, call'.message_id)
             = call'.topic_id]_vars

\* ------------------------------------------------------- reaction events
\* The router registers message handlers only (the commands, the forum topic
\* events, the photos): a reaction update on a message finds no handler, so the
\* dispatcher drops it. positive_delta and negative_delta are the signed deltas
\* the reaction's nature and direction stand for.
message_reaction(chat_id, message_id, positive_delta, negative_delta) ==
    /\ call' = [NoCall EXCEPT !.op = "message_reaction", !.chat_id = chat_id,
                              !.message_id = message_id, !.num = positive_delta,
                              !.num2 = negative_delta]
    /\ UNCHANGED <<store, clock, COUNT_EACH_PHOTO_IN_ALBUM, background, inflight, net_active, issued>>

\* like added, like removed, dislike added, dislike removed, like switched to dislike
ReactionEventInputs == {<<1, 0>>, <<-1, 0>>, <<0, 1>>, <<0, -1>>, <<-1, 1>>}

NextReaction ==
    \/ \E message \in CommandMessages : cmd_set_chat_active(message)
    \/ \E message \in CommandMessages : cmd_set_chat_inactive(message)
    \/ \E chat_id \in IndexChats, message_id \in Messages, topic_id \in Topics :
          CallSaveMessageTopic(chat_id, message_id, topic_id)
    \/ \E chat_id \in IndexChats, message_id \in Messages, delta \in ReactionEventInputs :
          message_reaction(chat_id, message_id, delta[1], delta[2])
    \/ Midnight(MaxPhotoDay)

SpecReaction == Init /\ [][NextReaction]_vars

\* C11: a reaction event on message m of chat c makes exactly one update_reaction_count
\* call, for the topic get_topic_by_message(c, m) gives or for topic 0 when the index
\* has no entry, with the signed deltas of the reaction; a switch from positive to
\* negative lowers the positive count by 1, raises the negative count by 1, and both
\* stay >= 0.
C11_ReactionEventUpdatesCount ==
    [][call'.op = "message_reaction" =>
         LET found == get_topic_by_message(message_topics, call'.chat_id, call'.message_id)
             topic_id == IF found = -1 THEN 0 ELSE found
         IN reaction_counts' =
              update_reaction_count(reaction_counts, call'.chat_id, topic_id,
                                    _get_current_date, call'.num, call'.num2)]_vars

\* ------------------------------------------------- the sheet and the sync
SYNC_BATCH_SIZE == 20
CLEANUP_AGE_DAYS == 30

\* values().clear() of the whole sheet
_clear_sheet(sheet) == EmptySheet

\* values().update() at A1 with the one row of headers
write_headers(sheet) == [sheet EXCEPT !.header = TRUE]

\* values().update() at A{start_row} with the rows of a batch: the cells of these
\* sheet rows are overwritten, every other row stays
_write_batch(sheet, start_row, values) ==
    LET target == start_row..(start_row + Len(values) - 1) IN
    [sheet EXCEPT !.rows = [r \in DOMAIN sheet.rows \cup target |->
                               IF r \in target THEN values[r - start_row + 1]
                               ELSE sheet.rows[r]]]

\* rows[i:], every remaining row in one batch
BatchOfTheRest(rows, i) == SubSeq(rows, i + 1, Len(rows))

\* rows[i:i + SYNC_BATCH_SIZE]
Batch(rows, i) ==
    SubSeq(rows, i + 1, IF i + SYNC_BATCH_SIZE < Len(rows) THEN i + SYNC_BATCH_SIZE
                        ELSE Len(rows))

\* a step of a job changes the job and what its call touches, nothing else
JobFrame ==
    UNCHANGED <<clock, COUNT_EACH_PHOTO_IN_ALBUM, inflight, net_active, issued, scheduler,
                reader>>

SyncJobs == {"sync", "force"}

\* a thread of the executor takes the job
JobStart(job) ==
    /\ jobs[job].pc = "queued"
    /\ jobs' = [jobs EXCEPT ![job].pc = IF job = "cleanup" THEN "run" ELSE "read"]
    /\ call' = [NoCall EXCEPT !.op = "job_start", !.text = job]
    /\ UNCHANGED <<store, sink>>
    /\ JobFrame

\* a call of the job to the store or to the Sheets API raises before it takes effect
JobRaise(job) ==
    /\ jobs[job].pc \in {"read", "ensure", "clear", "header", "batch", "run"}
    /\ jobs' = [jobs EXCEPT ![job].pc = "error"]
    /\ call' = [NoCall EXCEPT !.op = "job_raise", !.text = job]
    /\ UNCHANGED <<store, sink>>
    /\ JobFrame

\* the read without the two early returns: every cycle goes on to the sheet
SyncReadThenWrite(job) ==
    /\ jobs[job].pc = "read"
    /\ jobs' = [jobs EXCEPT ![job] = [pc |-> "ensure", rows |-> Report, written |-> 0]]
    /\ call' = [NoCall EXCEPT !.op = "sync_read", !.text = job, !.num = Len(Report)]
    /\ UNCHANGED <<store, sink>>
    /\ JobFrame

\* sync_to_sheets, lines 180-212: the dates and the rows are read from the store;
\* without dates or without rows the call returns before it touches the sheet
SyncRead(job) ==
    /\ jobs[job].pc = "read"
    /\ jobs' = [jobs EXCEPT ![job] =
                  IF get_unique_dates(image_counts) = {} \/ Len(Report) = 0
                  THEN [pc |-> "ok", rows |-> <<>>, written |-> 0]
                  ELSE [pc |-> "ensure", rows |-> Report, written |-> 0]]
    /\ call' = [NoCall EXCEPT !.op = "sync_read", !.text = job, !.num = Len(Report)]
    /\ UNCHANGED <<store, sink>>
    /\ JobFrame

\* line 215: the sheet exists or is created; its values are not touched
SyncEnsure(job) ==
    /\ jobs[job].pc = "ensure"
    /\ jobs' = [jobs EXCEPT ![job].pc = "clear"]
    /\ call' = [NoCall EXCEPT !.op = "sync_ensure", !.text = job]
    /\ UNCHANGED <<store, sink>>
    /\ JobFrame

\* line 216
SyncClear(job) ==
    /\ jobs[job].pc = "clear"
    /\ sink' = _clear_sheet(sink)
    /\ jobs' = [jobs EXCEPT ![job].pc = "header"]
    /\ call' = [NoCall EXCEPT !.op = "sync_clear", !.text = job]
    /\ UNCHANGED store
    /\ JobFrame

\* lines 219-222
SyncHeader(job) ==
    /\ jobs[job].pc = "header"
    /\ sink' = write_headers(sink)
    /\ jobs' = [jobs EXCEPT ![job].pc = "batch"]
    /\ call' = [NoCall EXCEPT !.op = "sync_header", !.text = job]
    /\ UNCHANGED store
    /\ JobFrame

\* lines 225-231: the next batch goes to sheet row i + 2
SyncBatch(job) ==
    LET j == jobs[job]
        batch == Batch(j.rows, j.written)
    IN
    /\ j.pc = "batch"
    /\ sink' = _write_batch(sink, j.written + 2, batch)
    /\ jobs' = [jobs EXCEPT ![job].written = j.written + Len(batch),
                            ![job].pc = IF j.written + Len(batch) >= Len(j.rows)
                                        THEN "resize" ELSE "batch"]
    /\ call' = [NoCall EXCEPT !.op = "sync_batch", !.text = job, !.num = Len(batch),
                              !.num2 = j.written + 2]
    /\ UNCHANGED store
    /\ JobFrame

\* line 234: _auto_resize_columns logs its errors itself; then the call returns
SyncResize(job) ==
    /\ jobs[job].pc = "resize"
    /\ jobs' = [jobs EXCEPT ![job].pc = "ok"]
    /\ call' = [NoCall EXCEPT !.op = "sync_done", !.text = job,
                              !.num = Len(jobs[job].rows)]
    /\ UNCHANGED <<store, sink>>
    /\ JobFrame

\* cleanup_old_message_topics(CLEANUP_AGE_DAYS) in the executor
CleanupRun ==
    LET r == cleanup_old_message_topics(message_topics, CLEANUP_AGE_DAYS, utc_date) IN
    /\ jobs["cleanup"].pc = "run"
    /\ message_topics' = r.table
    /\ jobs' = [jobs EXCEPT !["cleanup"].pc = "ok"]
    /\ call' = [NoCall EXCEPT !.op = "cleanup_done", !.text = "cleanup", !.ret = r.ret]
    /\ UNCHANGED <<active_chats, image_counts, chat_titles, topic_titles,
                   reaction_counts, sink>>
    /\ JobFrame

\* ----------------------------------------------------------- the scheduler
\* A task is "none" (not created), "created" (not run yet), "await" (waiting for its
\* job in the executor), "sleep", "done" (its loop ended) or "cancelled".
\* A step of the event loop changes the scheduler and hands jobs to the executor.
LoopFrame ==
    UNCHANGED <<store, clock, COUNT_EACH_PHOTO_IN_ALBUM, inflight, net_active, issued, sink,
                reader>>

Queued == [pc |-> "queued", rows |-> <<>>, written |-> 0]
Finished(job) == jobs[job].pc \in {"ok", "error"}

\* start(): a second start only warns
start ==
    /\ ~scheduler.running
    /\ scheduler.stop = "none"
    /\ scheduler' = [scheduler EXCEPT !.running = TRUE, !.sync_task = "created",
                                      !.cleanup_task = "created"]
    /\ call' = [NoCall EXCEPT !.op = "start"]
    /\ UNCHANGED jobs
    /\ LoopFrame

\* _sync_loop, lines 26-31: the loop test, then sync_to_sheets goes to the executor
SyncLoopIteration ==
    /\ scheduler.sync_task \in {"created", "sleep"}
    /\ IF scheduler.running
       THEN /\ scheduler' = [scheduler EXCEPT !.sync_task = "await"]
            /\ jobs' = [jobs EXCEPT !["sync"] = Queued]
       ELSE /\ scheduler' = [scheduler EXCEPT !.sync_task = "done"]
            /\ UNCHANGED jobs
    /\ call' = [NoCall EXCEPT !.op = "sync_cycle_start"]
    /\ LoopFrame

\* the exception sync_to_sheets raised, let through by a loop without its except
sync_cycle_end_uncaught(ok) == IF ok THEN "sleep" ELSE "done"

\* _sync_loop, lines 32-36: the job returned or raised; an Exception is logged and
\* the loop goes on to its sleep
sync_cycle_end(ok) == IF ok THEN "sleep" ELSE "sleep"

SyncCycleEnd ==
    /\ scheduler.sync_task = "await"
    /\ Finished("sync")
    /\ scheduler' = [scheduler EXCEPT !.sync_task = sync_cycle_end(jobs["sync"].pc = "ok")]
    /\ jobs' = [jobs EXCEPT !["sync"] = NoJob]
    /\ call' = [NoCall EXCEPT !.op = "sync_cycle_end", !.ok = (jobs["sync"].pc = "ok")]
    /\ LoopFrame

\* _cleanup_loop, lines 41-43: the loop test, then the sleep before the cleanup
CleanupLoopIteration ==
    /\ scheduler.cleanup_task = "created"
    /\ scheduler' = [scheduler EXCEPT
                       !.cleanup_task = IF scheduler.running THEN "sleep" ELSE "done"]
    /\ call' = [NoCall EXCEPT !.op = "cleanup_loop"]
    /\ UNCHANGED jobs
    /\ LoopFrame

\* lines 45-51: after the sleep the loop breaks if the scheduler was stopped, else
\* the cleanup goes to the executor
CleanupWake ==
    /\ scheduler.cleanup_task = "sleep"
    /\ IF scheduler.running
       THEN /\ scheduler' = [scheduler EXCEPT !.cleanup_task = "await"]
            /\ jobs' = [jobs EXCEPT !["cleanup"] = Queued]
       ELSE /\ scheduler' = [scheduler EXCEPT !.cleanup_task = "done"]
            /\ UNCHANGED jobs
    /\ call' = [NoCall EXCEPT !.op = "cleanup_cycle_start"]
    /\ LoopFrame

\* the exception of the cleanup, let through by a loop without its except
cleanup_cycle_end_uncaught(ok, running) == IF ok /\ running THEN "sleep" ELSE "done"

\* lines 52-56 and the loop test: the job returned or raised; an Exception is logged
cleanup_cycle_end(ok, running) == IF running THEN "sleep" ELSE "done"

CleanupCycleEnd ==
    /\ scheduler.cleanup_task = "await"
    /\ Finished("cleanup")
    /\ scheduler' = [scheduler EXCEPT
                       !.cleanup_task = cleanup_cycle_end(jobs["cleanup"].pc = "ok",
                                                          scheduler.running)]
    /\ jobs' = [jobs EXCEPT !["cleanup"] = NoJob]
    /\ call' = [NoCall EXCEPT !.op = "cleanup_cycle_end",
                              !.ok = (jobs["cleanup"].pc = "ok")]
    /\ LoopFrame

\* task.cancel(): a task that has not ended gets CancelledError at the await it is
\* suspended in, which no except Exception catches
cancel(task) == IF task \in {"created", "await", "sleep"} THEN "cancelled" ELSE task

\* the job of a cancelled task: dropped while it waits in the executor's queue, left
\* to run to its end in its thread once a thread has taken it
cancel_job(task, job) == IF task = "await" /\ job.pc = "queued" THEN NoJob ELSE job

\* stop(), lines 71-76: _running is cleared and the sync task is cancelled and awaited
StopSync ==
    /\ scheduler.stop = "none"
    /\ scheduler.sync_task # "none"
    /\ scheduler' = [scheduler EXCEPT !.running = FALSE,
                                      !.sync_task = cancel(scheduler.sync_task),
                                      !.stop = "await_sync"]
    /\ jobs' = [jobs EXCEPT !["sync"] = cancel_job(scheduler.sync_task, jobs["sync"])]
    /\ call' = [NoCall EXCEPT !.op = "stop"]
    /\ LoopFrame

\* lines 73-79 for the cleanup task
StopCleanup ==
    /\ scheduler.stop = "await_sync"
    /\ scheduler' = [scheduler EXCEPT !.cleanup_task = cancel(scheduler.cleanup_task),
                                      !.stop = "await_cleanup"]
    /\ jobs' = [jobs EXCEPT !["cleanup"] =
                               cancel_job(scheduler.cleanup_task, jobs["cleanup"])]
    /\ call' = [NoCall EXCEPT !.op = "stop_cleanup"]
    /\ LoopFrame

\* line 81: stop() returns
StopReturn ==
    /\ scheduler.stop = "await_cleanup"
    /\ scheduler' = [scheduler EXCEPT !.stop = "returned"]
    /\ call' = [NoCall EXCEPT !.op = "stop_return"]
    /\ UNCHANGED jobs
    /\ LoopFrame

\* force_sync(), lines 85-88: sync_to_sheets goes to the executor
force_sync ==
    /\ scheduler.force = "none"
    /\ scheduler' = [scheduler EXCEPT !.force = "await"]
    /\ jobs' = [jobs EXCEPT !["force"] = Queued]
    /\ call' = [NoCall EXCEPT !.op = "force_sync"]
    /\ LoopFrame

\* the awaited job returned or raised: force_sync has no try around the await, so
\* what the job raised is raised to the caller of force_sync
ForceSyncEnd ==
    /\ scheduler.force = "await"
    /\ Finished("force")
    /\ scheduler' = [scheduler EXCEPT
                       !.force = IF jobs["force"].pc = "ok" THEN "returned" ELSE "raised"]
    /\ jobs' = [jobs EXCEPT !["force"] = NoJob]
    /\ call' = [NoCall EXCEPT !.op = "force_sync_end", !.ok = (jobs["force"].pc = "ok")]
    /\ LoopFrame

\* a store with one report row to write: chat 100 active, its topic 5 typed, a photo
SchedulerStoreStep ==
    \/ AddActiveChat(100) /\ call' = NoCall
    \/ SetTopicType(100, 5, "Chistota") /\ call' = NoCall
    \/ IncrementImageCount(100, 5, 1, 1) /\ call' = NoCall

NextScheduler ==
    \/ SchedulerStoreStep
    \/ start
    \/ SyncLoopIteration
    \/ SyncCycleEnd
    \/ CleanupLoopIteration
    \/ CleanupWake
    \/ CleanupCycleEnd
    \/ StopSync
    \/ StopCleanup
    \/ StopReturn
    \/ force_sync
    \/ ForceSyncEnd
    \/ \E job \in Jobs : JobStart(job)
    \/ \E job \in Jobs : JobRaise(job)
    \/ \E job \in SyncJobs : SyncRead(job)
    \/ \E job \in SyncJobs : SyncEnsure(job)
    \/ \E job \in SyncJobs : SyncClear(job)
    \/ \E job \in SyncJobs : SyncHeader(job)
    \/ \E job \in SyncJobs : SyncBatch(job)
    \/ \E job \in SyncJobs : SyncResize(job)
    \/ CleanupRun

SpecScheduler == Init /\ [][NextScheduler]_vars

\* The event loop runs every task that is ready and the timers of the sleeps expire;
\* the executor's threads take the queued jobs and run them to their end.
SpecSchedulerFair ==
    /\ SpecScheduler
    /\ WF_vars(SyncLoopIteration)
    /\ WF_vars(SyncCycleEnd)
    /\ WF_vars(CleanupLoopIteration)
    /\ WF_vars(CleanupWake)
    /\ WF_vars(CleanupCycleEnd)

Alive(task) == task \in {"created", "await", "sleep"}

\* C12: an exception raised in a sync cycle or in a cleanup cycle is caught at the
\* cycle's boundary and does not end the loop. While the scheduler is running both
\* loops are alive; a failed cycle leaves its own timer asleep for its interval and
\* the other timer where it was; and the timer whose cycle failed starts another
\* cycle unless the scheduler is stopped first.
C12_FailedCycleKeepsTimers ==
    /\ [](scheduler.running =>
             Alive(scheduler.sync_task) /\ Alive(scheduler.cleanup_task))
    /\ [][(call'.op = "sync_cycle_end" /\ ~call'.ok)
            => /\ scheduler'.sync_task = "sleep"
               /\ scheduler'.cleanup_task = scheduler.cleanup_task
               /\ scheduler'.running = scheduler.running]_vars
    /\ [][(call'.op = "cleanup_cycle_end" /\ ~call'.ok /\ scheduler.running)
            => /\ scheduler'.cleanup_task = "sleep"
               /\ scheduler'.sync_task = scheduler.sync_task
               /\ scheduler'.running]_vars
    /\ (call.op = "sync_cycle_end" /\ ~call.ok)
          ~> (jobs["sync"].pc = "queued" \/ ~scheduler.running)
    /\ (call.op = "cleanup_cycle_end" /\ ~call.ok /\ scheduler.running)
          ~> (jobs["cleanup"].pc = "queued" \/ ~scheduler.running)

\* a sync cycle has just failed while the cleanup timer sleeps: the scheduler still
\* runs, the sync timer sleeps and the cleanup timer is where it was
C12_Witness ==
    /\ call.op = "sync_cycle_end"
    /\ ~call.ok
    /\ scheduler.running
    /\ scheduler.sync_task = "sleep"
    /\ scheduler.cleanup_task = "sleep"

\* C13: force_sync runs the sync cycle of the timer with the timer's failure policy:
\* an exception the sync cycle raises during force_sync is caught and logged and is
\* not raised to the caller of force_sync.
C13_ForceSyncSwallowsFailure == scheduler.force # "raised"

\* C14: when stop() has returned, both timers have ended and no sync or cleanup work
\* the scheduler started is still executing: the job of a cycle that was in flight
\* has finished or was interrupted, so the scheduler reads no store row, deletes none
\* and writes nothing to the sheet after stop() returned.
C14_NoWorkAfterStop ==
    scheduler.stop = "returned" =>
        /\ ~Alive(scheduler.sync_task)
        /\ ~Alive(scheduler.cleanup_task)
        /\ jobs["sync"].pc \in {"idle", "ok", "error"}
        /\ jobs["cleanup"].pc \in {"idle", "ok", "error"}

\* ------------------------------------------------ the sync timer on its own
\* the store of SchedulerStoreStep, and chat 100 deactivated: its row leaves the report
NextSync ==
    \/ SchedulerStoreStep
    \/ RemoveActiveChat(100) /\ call' = NoCall
    \/ start
    \/ SyncLoopIteration
    \/ SyncCycleEnd
    \/ JobStart("sync")
    \/ JobRaise("sync")
    \/ SyncRead("sync")
    \/ SyncEnsure("sync")
    \/ SyncClear("sync")
    \/ SyncHeader("sync")
    \/ SyncBatch("sync")
    \/ SyncResize("sync")

SpecSync == Init /\ [][NextSync]_vars

\* the sheet that holds the headers in row 1 and the rows from row 2 on
SheetOf(rows) == [header |-> TRUE, rows |-> [r \in 2..(Len(rows) + 1) |-> rows[r - 1]]]

\* C15: a sync cycle that completes without error replaces the sheet: after it the
\* sheet holds exactly the header row followed by the rows of the report built in
\* that cycle, and nothing of earlier cycles, also when the report has fewer rows
\* than the one before or none.
C15_SyncReplacesAll ==
    [][(call'.op = "sync_cycle_end" /\ call'.ok) => sink = SheetOf(jobs["sync"].rows)]_vars

\* ------------------------------------------ every operation on one store
\* One chat, one topic, one message: the handlers, the store operations no handler
\* calls, the sync timer with its job, the cleanup with the ages that delete within
\* the days of the clock, and the days passing.
StorePhotoMessages == {[PlainMessage(100, 5) EXCEPT !.chat_title = "Cafe"]}

NextStore ==
    \/ cmd_set_chat_active(PlainMessage(100, 5))
    \/ cmd_set_chat_inactive(PlainMessage(100, 5))
    \/ \E message \in StorePhotoMessages : handle_photo(message)
    \/ SetChatCity(100, "Springfield") /\ call' = NoCall
    \/ SetTopicType(100, 5, PRODUCTION_TYPE) /\ call' = NoCall
    \/ UpdateReactionCount(100, 5, 1, 0, 1) /\ call' = NoCall
    \/ CallSaveMessageTopic(100, 1, 5)
    \/ \E days \in AgeInputs : CallCleanupOldMessageTopics(days)
    \/ start
    \/ SyncLoopIteration
    \/ SyncCycleEnd
    \/ JobStart("sync")
    \/ SyncRead("sync")
    \/ SyncEnsure("sync")
    \/ SyncClear("sync")
    \/ SyncHeader("sync")
    \/ SyncBatch("sync")
    \/ SyncResize("sync")
    \/ MidnightMoscow(MaxPhotoDay) /\ call' = NoCall
    \/ MidnightUTC /\ call' = NoCall

SpecStore == Init /\ [][NextStore]_vars

\* C16: only increment_image_count changes an image-count row. In every step the
\* count of each row stays or grows and no row is deleted; a step that is not a
\* counted photo leaves image_counts as it is, across deactivation, city, title and
\* type changes, reaction updates, sync cycles and the cleanup, which deletes rows of
\* message_topics only and leaves reaction_counts as they are as well.
C16_OnlyIncrementChangesCounts ==
    [][/\ \A key \in DOMAIN image_counts :
             key \in DOMAIN image_counts' /\ image_counts'[key] >= image_counts[key]
       /\ call'.op # "handle_photo" => image_counts' = image_counts
       /\ call'.op = "cleanup_old_message_topics"
             => reaction_counts' = reaction_counts]_vars

\* the cleanup has just deleted the index entry of a message while the count and the
\* reactions of an earlier day are still in the store
C16_Witness ==
    /\ call.op = "cleanup_old_message_topics"
    /\ call.ret = 1
    /\ \E key \in DOMAIN image_counts : key[3] < utc_date /\ image_counts[key] = 2
    /\ \E key \in DOMAIN reaction_counts : key[3] < utc_date
    /\ 100 \notin DOMAIN active_chats

\* C17: set_chat_city on a chat that is not active returns False and leaves the whole
\* store as it is, creating no active-chat row; on an active chat it returns True and
\* changes the city of that chat only.
C17_SetChatCity ==
    [][call'.op = "set_chat_city" =>
         LET chat_id == call'.chat_id IN
         /\ UNCHANGED <<image_counts, chat_titles, topic_titles, reaction_counts,
                        message_topics>>
         /\ IF chat_id \notin DOMAIN active_chats
            THEN ~call'.ok /\ active_chats' = active_chats
            ELSE /\ call'.ok
                 /\ DOMAIN active_chats' = DOMAIN active_chats
                 /\ active_chats'[chat_id].city = call'.text
                 /\ active_chats'[chat_id].created_at = active_chats[chat_id].created_at
                 /\ \A other \in DOMAIN active_chats \ {chat_id} :
                       active_chats'[other] = active_chats[other]]_vars

\* set_chat_city has just returned False for chat 100, which is not active, while
\* chat 200 is active with the city an earlier call gave it
C17_Witness ==
    /\ call.op = "set_chat_city"
    /\ ~call.ok
    /\ call.chat_id = 100
    /\ 100 \notin DOMAIN active_chats
    /\ 200 \in DOMAIN active_chats
    /\ active_chats[200].city = "Springfield"

\* ------------------------------------------------- topic titles and types
TopicChats == {100}
TopicTitleInputs == {"Kitchen", "Bar"}

NextTopics ==
    \/ \E chat_id \in TopicChats, topic_id \in Topics, title \in TopicTitleInputs :
          CallUpdateTopicTitle(chat_id, topic_id, title)
    \/ \E chat_id \in TopicChats, topic_id \in Topics, topic_type \in TypeInputs :
          CallSetTopicType(chat_id, topic_id, topic_type)

SpecTopics == Init /\ [][NextTopics]_vars

\* C18: the title and the type of a topic are set independently. update_topic_title
\* stores its title and keeps the type (the default type on a new row);
\* set_topic_type stores its type and keeps the title (the placeholder title on a new
\* row); neither touches another topic. So after any sequence of the two on a topic
\* the type is that of the last set_topic_type, or the default, and the title that of
\* the last update_topic_title, or the placeholder the first set_topic_type created.
C18_TitleAndTypeIndependent ==
    [][LET key == <<call'.chat_id, call'.topic_id>>
           same_others == /\ DOMAIN topic_titles' = DOMAIN topic_titles \cup {key}
                          /\ \A other \in DOMAIN topic_titles \ {key} :
                                topic_titles'[other] = topic_titles[other]
       IN
       /\ call'.op = "update_topic_title" =>
             /\ same_others
             /\ topic_titles'[key].title = call'.text
             /\ get_topic_type(topic_titles', key[1], key[2]) =
                  get_topic_type(topic_titles, key[1], key[2])
       /\ call'.op = "set_topic_type" =>
             /\ same_others
             /\ call'.ok
             /\ get_topic_type(topic_titles', key[1], key[2]) = call'.text
             /\ topic_titles'[key].title =
                  IF key \in DOMAIN topic_titles THEN topic_titles[key].title
                  ELSE PlaceholderTitle(key[2])]_vars

\* update_topic_title has just renamed topic 5, whose type was set before and is kept
C18_Witness ==
    /\ call.op = "update_topic_title"
    /\ call.text = "Kitchen"
    /\ <<100, 5>> \in DOMAIN topic_titles
    /\ topic_titles[<<100, 5>>] = [title |-> "Kitchen", type |-> PRODUCTION_TYPE]

\* set_topic_type has just typed topic 5, which had no row: it has the placeholder title
C18_WitnessPlaceholder ==
    /\ call.op = "set_topic_type"
    /\ <<100, 5>> \in DOMAIN topic_titles
    /\ topic_titles[<<100, 5>>] = [title |-> PlaceholderTitle(5), type |-> "Chistota"]

\* ------------------------------------------------ the set-topic-name command
\* what follows the command word: nothing, or whitespace and then anything
RestInputs ==
    {rest \in UNION {[1..n -> {" ", "a"}] : n \in 0..MaxArgLen} :
        rest = <<>> \/ rest[1] = " "}
NameTexts == {NoText} \cup {CommandText(rest) : rest \in RestInputs}
NameMessages == {PlainMessage(100, 5), PlainMessage(100, NoThread)}
NameTypeInputs == {"Chistota", PRODUCTION_TYPE}

NextTopicName ==
    \/ \E message \in NameMessages, text \in NameTexts : cmd_set_topic_name(message, text)
    \/ \E topic_id \in Topics, topic_type \in NameTypeInputs :
          CallSetTopicType(100, topic_id, topic_type)

SpecTopicName == Init /\ [][NextTopicName]_vars

\* the characters from the first to the last that is not a space
Trimmed(chars) ==
    LET inked == {i \in 1..Len(chars) : chars[i] # " "} IN
    IF inked = {} THEN <<>>
    ELSE SubSeq(chars, CHOOSE i \in inked : \A j \in inked : i <= j,
                       CHOOSE i \in inked : \A j \in inked : i >= j)

\* C19: /set_topic_name with no argument (the command word alone, or followed by
\* whitespace only) replies with the usage and changes nothing in the store; with an
\* argument it upserts the title, and only the title, of the topic of the chat it
\* was sent in, and leaves the type of the topic as it is.
C19_SetTopicName ==
    [][\A message \in NameMessages, text \in NameTexts :
          cmd_set_topic_name(message, text) =>
             LET rest == SubSeq(text.chars, 2, Len(text.chars))
                 key == <<message.chat_id, get_topic_id(message)>>
             IN
             /\ UNCHANGED <<active_chats, image_counts, chat_titles, reaction_counts,
                            message_topics>>
             /\ IF ~text.present \/ Trimmed(rest) = <<>>
                THEN call'.out = "usage" /\ topic_titles' = topic_titles
                ELSE /\ call'.out = "set"
                     /\ DOMAIN topic_titles' = DOMAIN topic_titles \cup {key}
                     /\ topic_titles'[key].title = Join(Trimmed(rest))
                     /\ get_topic_type(topic_titles', key[1], key[2]) =
                          get_topic_type(topic_titles, key[1], key[2])
                     /\ \A other \in DOMAIN topic_titles \ {key} :
                           topic_titles'[other] = topic_titles[other]]_vars

\* the command has just named topic 5 "a a", stripped of the spaces around it; the
\* type the topic had is kept
C19_Witness ==
    /\ call.op = "cmd_set_topic_name"
    /\ call.out = "set"
    /\ call.topic_id = 5
    /\ <<100, 5>> \in DOMAIN topic_titles
    /\ topic_titles[<<100, 5>>] = [title |-> "a a", type |-> PRODUCTION_TYPE]

\* the command without an argument has just replied with the usage; the title it set
\* before is still there
C19_WitnessUsage ==
    /\ call.op = "cmd_set_topic_name"
    /\ call.out = "usage"
    /\ <<100, 5>> \in DOMAIN topic_titles
    /\ topic_titles[<<100, 5>>].title = "aa"

\* C20: save_message_topic is a last-write-wins upsert per (chat, message). A save
\* makes get_topic_by_message of its key return its topic, whatever was stored, and
\* changes the result for no other key; the cleanup leaves every result as it was
\* or, for the entries it deletes, turns it to None; nothing else changes a result;
\* and a key without an entry (never saved, or deleted) gives None.
C20_LastWriteWins ==
    /\ [](\A key \in Chats \X Messages :
             key \notin DOMAIN message_topics
                => get_topic_by_message(message_topics, key[1], key[2]) = -1)
    /\ [][LET get(table, key) == get_topic_by_message(table, key[1], key[2])
              saved == <<call'.chat_id, call'.message_id>>
          IN
          /\ call'.op = "save_message_topic" =>
                /\ get(message_topics', saved) = call'.topic_id
                /\ \A key \in (Chats \X Messages) \ {saved} :
                      get(message_topics', key) = get(message_topics, key)
          /\ call'.op = "cleanup_old_message_topics" =>
                \A key \in Chats \X Messages :
                   IF key \in old_message_topics(message_topics, call'.num, utc_date)
                   THEN get(message_topics', key) = -1
                   ELSE get(message_topics', key) = get(message_topics, key)
          /\ call'.op \notin {"save_message_topic", "cleanup_old_message_topics"} =>
                message_topics' = message_topics]_vars

\* message 1 was saved again a day after its first save, now for topic 5: the index
\* gives 5 for it, and still 0 for message 2, saved the day before
C20_Witness ==
    /\ call.op = "save_message_topic"
    /\ call.message_id = 1
    /\ call.topic_id = 5
    /\ msk_date = 1
    /\ <<100, 1>> \in DOMAIN message_topics
    /\ <<100, 2>> \in DOMAIN message_topics
    /\ get_topic_by_message(message_topics, 100, 1) = 5
    /\ message_topics[<<100, 1>>].created_at = 1
    /\ get_topic_by_message(message_topics, 100, 2) = 0
    /\ message_topics[<<100, 2>>].created_at = 0

\* ------------------------------------------------- counts across the days
DailyDeltas == {<<1, 0>>, <<-1, 0>>, <<0, 1>>}

NextDaily ==
    \/ \E caller \in 1..NumCallers : BeginIncrement(caller, 100, 5, 1)
    \/ \E caller \in 1..NumCallers : CommitIncrement(caller)
    \/ \E delta \in DailyDeltas : CallUpdateReactionCount(100, 5, delta[1], delta[2])
    \/ Midnight(MaxCountDay)

SpecDaily == Init /\ [][NextDaily]_vars

\* C21: increment_image_count and update_reaction_count write only the row of the
\* date that is current in TIMEZONE when the call reads it. A call reads the date of
\* the Moscow clock; the increment changes the row of that date and no other row;
\* a reaction update creates or changes the row of that date and leaves the rows of
\* every other date as they are, so a removal on a later day does not lower the
\* count of the day of the addition.
C21_OnlyTodaysRow ==
    [][/\ \A caller \in 1..NumCallers :
             (inflight'[caller].busy /\ ~inflight[caller].busy)
                => inflight'[caller].date = msk_date
       /\ call'.op = "increment_image_count" =>
             LET key == <<call'.chat_id, call'.topic_id, call'.num2>> IN
             /\ \E caller \in 1..NumCallers :
                   inflight[caller].busy /\ inflight[caller].date = call'.num2
             /\ DOMAIN image_counts' = DOMAIN image_counts \cup {key}
             /\ \A other \in DOMAIN image_counts \ {key} :
                   image_counts'[other] = image_counts[other]
       /\ call'.op = "update_reaction_count" =>
             LET key == <<call'.chat_id, call'.topic_id, msk_date>> IN
             /\ DOMAIN reaction_counts' = DOMAIN reaction_counts \cup {key}
             /\ \A other \in DOMAIN reaction_counts \ {key} :
                   reaction_counts'[other] = reaction_counts[other]]_vars

\* a like was added on day 0 and removed on day 1: the removal made the row of day 1,
\* with nothing in it, and the like of day 0 is still counted
C21_Witness ==
    /\ call.op = "update_reaction_count"
    /\ call.num = -1
    /\ msk_date = 1
    /\ <<100, 5, 0>> \in DOMAIN reaction_counts
    /\ <<100, 5, 1>> \in DOMAIN reaction_counts
    /\ reaction_counts[<<100, 5, 0>>].positive_count = 1
    /\ reaction_counts[<<100, 5, 1>>].positive_count = 0
    /\ get_image_count(image_counts, 100, 5, 0) = 1
    /\ get_image_count(image_counts, 100, 5, 1) = 1

\* ------------------------------------------------ the layout of the report
MaxOrderCount == 3

REACTION_COLUMNS == <<"Polozhitelnye reaktsii", "Otritsatelnye reaktsii">>

\* sync_to_sheets, line 187: the header row
Headers == <<"Data", "Gorod">> \o TOPIC_TYPES \o REACTION_COLUMNS

\* sync_to_sheets, lines 198-207: the cells of a row, as appended
RowValues(row) == <<row.date, row.city>> \o row.counts \o <<row.positive, row.negative>>

OrderTopics == {<<100, 5>>, <<200, 5>>}
OrderTypeInputs == {"Chistota", PRODUCTION_TYPE}

NextOrder ==
    \/ \E chat_id \in Chats : AddActiveChat(chat_id) /\ call' = NoCall
    \/ \E chat_id \in ReportCityChats, city \in Cities :
          SetChatCity(chat_id, city) /\ call' = NoCall
    \/ \E key \in OrderTopics, topic_type \in OrderTypeInputs :
          SetTopicType(key[1], key[2], topic_type) /\ call' = NoCall
    \/ \E key \in OrderTopics :
          IncrementImageCount(key[1], key[2], 1, MaxOrderCount) /\ call' = NoCall
    \/ UpdateReactionCount(100, 5, 1, 0, MaxReactReportCount) /\ call' = NoCall
    \/ MidnightMoscow(MaxReportDay) /\ call' = NoCall
    \/ MidnightUTC /\ call' = NoCall

SpecOrder == Init /\ [][NextOrder]_vars

\* a formatted date (day, month, year) is earlier than another
Earlier(a, b) ==
    \/ a[3] < b[3]
    \/ a[3] = b[3] /\ a[2] < b[2]
    \/ a[3] = b[3] /\ a[2] = b[2] /\ a[1] < b[1]

\* the place of a city in the order of ORDER BY city
CityRank(city) == CHOOSE i \in 1..Len(CityOrder) : CityOrder[i] = city

\* C22: the report lists its dates in ascending order and, within a date, its cities
\* in ascending order, with at most one row per (date, city); every row has
\* 2 + number of topic types + 2 cells, as many as the header: date, city, the
\* type columns in the declared order, then the positive and the negative reactions.
C22_OrderAndWidth ==
    /\ \A i, j \in 1..Len(Report) :
          i < j =>
            \/ Earlier(Report[i].date, Report[j].date)
            \/ /\ Report[i].date = Report[j].date
               /\ CityRank(Report[i].city) < CityRank(Report[j].city)
    /\ \A i \in 1..Len(Report) :
          LET cells == RowValues(Report[i])
              date == CHOOSE d \in Days : _format_date(d) = cells[1]
              reacted == get_reaction_count_by_city_date(active_chats, topic_titles,
                                                         reaction_counts, cells[2], date)
          IN /\ Len(cells) = 2 + Len(TOPIC_TYPES) + 2
             /\ Len(cells) = Len(Headers)
             /\ cells[2] \in Cities
             /\ \A col \in 1..Len(TOPIC_TYPES) :
                   cells[2 + col] = CountedFor(date, cells[2], TOPIC_TYPES[col])
             /\ cells[Len(cells) - 1] = reacted[1]
             /\ cells[Len(cells)] = reacted[2]

\* three rows: both cities on the first date, in order, then a row of the next date
C22_Witness ==
    /\ Len(Report) = 3
    /\ Report[1].date = Report[2].date
    /\ Report[1].city = "Springfield"
    /\ Report[2].city = DEFAULT_CITY
    /\ Earlier(Report[2].date, Report[3].date)
    /\ Report[3].city = "Springfield"
    /\ RowValues(Report[1])[10] = 1

\* ------------------------------------------------- the batches of a cycle
MaxRows == 41

\* a report of n rows: two cities per date, n distinct rows
ManyRows(n) ==
    [i \in 1..n |->
        [date |-> <<(((i - 1) \div 2) % 28) + 1, ((i - 1) \div 56) + 1, 2025>>,
         city |-> CityOrder[((i - 1) % 2) + 1],
         counts |-> [col \in 1..Len(TOPIC_TYPES) |-> IF col = 2 THEN 1 ELSE 0],
         positive |-> 0,
         negative |-> 0]]

\* sync_to_sheets after line 213, called by force_sync with a report of 1..MaxRows
\* rows, the sheet empty or holding a longer report of an earlier cycle
InitBatch ==
    /\ active_chats = EmptyTable
    /\ image_counts = EmptyTable
    /\ chat_titles = EmptyTable
    /\ topic_titles = EmptyTable
    /\ reaction_counts = EmptyTable
    /\ message_topics = EmptyTable
    /\ utc_date = 0
    /\ msk_date = 0
    /\ COUNT_EACH_PHOTO_IN_ALBUM = TRUE
    /\ inflight = [caller \in 1..NumCallers |-> Idle]
    /\ call = NoCall
    /\ net_active = {}
    /\ issued = [k \in Chats \X Topics \X Days |-> 0]
    /\ scheduler = [NotStarted EXCEPT !.force = "await"]
    /\ \E n \in 1..MaxRows :
          jobs = [job \in Jobs |->
                    IF job = "force"
                    THEN [pc |-> "ensure", rows |-> ManyRows(n), written |-> 0]
                    ELSE NoJob]
    /\ sink \in {EmptySheet, SheetOf(ManyRows(MaxRows + 2))}
    /\ reader = NoReader

NextBatch ==
    \/ SyncEnsure("force")
    \/ SyncClear("force")
    \/ SyncHeader("force")
    \/ SyncBatch("force")
    \/ SyncResize("force")

SpecBatch == InitBatch /\ [][NextBatch]_vars

\* C23: in a writing cycle the clear comes first, then the header, then the rows in
\* consecutive batches of at most SYNC_BATCH_SIZE rows: each batch starts at the
\* sheet row after the last one written, touches no row written before, and when
\* the cycle is done row i (from 0) is at sheet row i + 2, for any number of rows,
\* the multiples of the batch size included.
C23_ConsecutiveBatches ==
    [][ LET j == jobs["force"]
            target == call'.num2..(call'.num2 + call'.num - 1)
        IN
        /\ call'.op = "sync_clear" => sink' = EmptySheet
        /\ call'.op = "sync_header" =>
             /\ sink = EmptySheet
             /\ sink'.header
             /\ sink'.rows = EmptyTable
        /\ call'.op = "sync_batch" =>
             /\ sink.header
             /\ DOMAIN sink.rows = 2..(j.written + 1)
             /\ call'.num \in 1..SYNC_BATCH_SIZE
             /\ call'.num = SYNC_BATCH_SIZE \/ jobs'["force"].written = Len(j.rows)
             /\ target = (j.written + 2)..(j.written + call'.num + 1)
             /\ target \cap DOMAIN sink.rows = {}
             /\ DOMAIN sink'.rows = DOMAIN sink.rows \cup target
             /\ \A r \in DOMAIN sink.rows : sink'.rows[r] = sink.rows[r]
             /\ \A r \in target : sink'.rows[r] = j.rows[r - 1]
             /\ sink'.header
        /\ call'.op = "sync_done" =>
             /\ j.written = Len(j.rows)
             /\ sink = SheetOf(j.rows)
      ]_vars

\* the second batch of a report of twice the batch size was full and the last one
C23_Witness ==
    /\ call.op = "sync_batch"
    /\ call.num = SYNC_BATCH_SIZE
    /\ call.num2 = SYNC_BATCH_SIZE + 2
    /\ Len(jobs["force"].rows) = 2 * SYNC_BATCH_SIZE
    /\ jobs["force"].pc = "resize"
    /\ sink = SheetOf(jobs["force"].rows)

\* a report of one row more than two batches is written in three
C23_WitnessThreeBatches ==
    /\ call.op = "sync_batch"
    /\ call.num = 1
    /\ call.num2 = 2 * SYNC_BATCH_SIZE + 2
    /\ sink = SheetOf(jobs["force"].rows)

\* --------------------------------------------- events during a sync cycle
\* the handlers of one chat and the sync loop with its cycle in the executor
NextDuring ==
    \/ cmd_set_chat_active(PlainMessage(100, 5))
    \/ cmd_set_chat_inactive(PlainMessage(100, 5))
    \/ \E message \in StorePhotoMessages : handle_photo(message)
    \/ SetTopicType(100, 5, PRODUCTION_TYPE) /\ call' = NoCall
    \/ start
    \/ SyncLoopIteration
    \/ SyncCycleEnd
    \/ JobStart("sync")
    \/ SyncRead("sync")
    \/ SyncEnsure("sync")
    \/ SyncClear("sync")
    \/ SyncHeader("sync")
    \/ SyncBatch("sync")
    \/ SyncResize("sync")

SpecDuring == Init /\ [][NextDuring]_vars

\* C24: the write to the sheet runs off the event-handling path. While a sync cycle
\* is in progress the command and the photo events stay enabled; handling one takes
\* a single step that leaves the cycle and the sheet as they are, and the photo it
\* counts is in the store at once; the rows a cycle reads are the report of the
\* store as it is at that read, so they hold every increment applied before it.
C24_EventsDuringCycle ==
    /\ [](InCycle("sync") =>
            /\ ENABLED cmd_set_chat_active(PlainMessage(100, 5))
            /\ ENABLED cmd_set_chat_inactive(PlainMessage(100, 5))
            /\ \A message \in StorePhotoMessages :
                  (is_chat_active(active_chats, message.chat_id)
                      => Total(issued) < MaxPhotoCount)
                  => ENABLED handle_photo(message))
    /\ [][ /\ (InCycle("sync") /\ call'.op \in {"cmd_set_chat_active",
                                                 "cmd_set_chat_inactive", "handle_photo"})
               => jobs' = jobs /\ sink' = sink /\ scheduler' = scheduler
           /\ (InCycle("sync") /\ call'.op = "handle_photo" /\ call'.ok) =>
                LET key == <<call'.chat_id, call'.topic_id, msk_date>> IN
                get_image_count(image_counts', key[1], key[2], key[3]) =
                    get_image_count(image_counts, key[1], key[2], key[3]) + call'.num
           /\ call'.op = "sync_read" =>
                /\ call'.num = Len(Report')
                /\ jobs'["sync"].rows = Report'
         ]_vars

\* a photo was counted while the cycle was between its header and its rows
C24_Witness ==
    /\ call.op = "handle_photo"
    /\ call.ok
    /\ jobs["sync"].pc = "batch"
    /\ jobs["sync"].written = 0
    /\ sink.header
    /\ Len(Report) = 1
    /\ Report[1].counts[7] = 2
    /\ jobs["sync"].rows[1].counts[7] = 1

\* ------------------------------------------- the history of an active chat
ActiveTopics == {<<100, 5>>, <<200, 5>>}

NextActive ==
    \/ \E chat_id \in Chats : CallAddActiveChat(chat_id)
    \/ \E chat_id \in ReportCityChats : CallRemoveActiveChat(chat_id)
    \/ \E chat_id \in ReportCityChats :
          SetChatCity(chat_id, "Springfield") /\ call' = NoCall
    \/ \E key \in ActiveTopics :
          SetTopicType(key[1], key[2], PRODUCTION_TYPE) /\ call' = NoCall
    \/ \E key \in ActiveTopics :
          IncrementImageCount(key[1], key[2], 1, MaxReportCount) /\ call' = NoCall
    \/ UpdateReactionCount(100, 5, 1, 0, MaxReactReportCount) /\ call' = NoCall
    \/ MidnightMoscow(MaxReportDay) /\ call' = NoCall

SpecActive == Init /\ [][NextActive]_vars

\* a table of counts without the rows of the chats
WithoutChats(table, chats) == Remove(table, {key \in DOMAIN table : key[1] \in chats})

\* the report of the store with the counts of the chats taken out
ReportWithout(chats) ==
    ReportRows(active_chats, WithoutChats(image_counts, chats), topic_titles,
               WithoutChats(reaction_counts, chats),
               SortDates(get_unique_dates(WithoutChats(image_counts, chats))))

\* the stored counts of an active chat are in the row of its current city, whatever
\* the date: the image count of a topic of a fixed type in the column of the type,
\* the reactions of a production topic in the reaction columns of the row
Contributes(chat_id) ==
    LET city == get_chat_city(active_chats, chat_id)
        report == Report
    IN
    \A topic_id \in Topics, date \in Days :
        LET topic_type == get_topic_type(topic_titles, chat_id, topic_id)
            count == get_image_count(image_counts, chat_id, topic_id, date)
            rows == {i \in 1..Len(report) :
                        report[i].date = _format_date(date) /\ report[i].city = city}
        IN
        /\ (<<chat_id, topic_id>> \in DOMAIN topic_titles
              /\ \E col \in 1..Len(TOPIC_TYPES) : TOPIC_TYPES[col] = topic_type)
            /\ count > 0
            => /\ rows # {}
               /\ \A i \in rows : report[i].counts[Column(topic_type)] >= count
        /\ (<<chat_id, topic_id>> \in DOMAIN topic_titles
              /\ topic_type = PRODUCTION_TYPE
              /\ <<chat_id, topic_id, date>> \in DOMAIN reaction_counts)
            => \A i \in rows :
                  report[i].positive >=
                      reaction_counts[<<chat_id, topic_id, date>>].positive_count

\* C25: the counts of a chat are in the report exactly while the chat is active, and
\* then in the row of the chat's current city for every date, past dates included.
\* The report is the report of the store without the counts of the inactive chats;
\* removing a chat takes all its history out of the report; adding it again stores
\* it with the default city, and its stored counts are in the default city's rows.
C25_ActiveChatsOnly ==
    /\ [](/\ Report = ReportWithout(Chats \ DOMAIN active_chats)
          /\ \A chat_id \in DOMAIN active_chats : Contributes(chat_id))
    /\ [][ \A chat_id \in Chats :
             /\ (call'.op = "remove_active_chat" /\ call'.chat_id = chat_id) =>
                  /\ ~is_chat_active(active_chats', chat_id)
                  /\ Report' = ReportWithout({chat_id})'
             /\ (call'.op = "add_active_chat" /\ call'.chat_id = chat_id /\ call'.ok) =>
                  /\ get_chat_city(active_chats', chat_id) = DEFAULT_CITY
                  /\ Contributes(chat_id)'
         ]_vars

\* chat 100, once in Springfield, was removed and added again: its photo and its
\* like of the day before are in the default city's row of that day
C25_Witness ==
    /\ call.op = "add_active_chat"
    /\ call.ok
    /\ call.chat_id = 100
    /\ msk_date = 1
    /\ active_chats[100].created_at = 1
    /\ get_image_count(image_counts, 100, 5, 0) = 1
    /\ <<100, 5, 0>> \in DOMAIN reaction_counts
    /\ RowsOf(0, "Springfield") = {}
    /\ \E i \in RowsOf(0, DEFAULT_CITY) :
          Report[i].counts[7] = 1 /\ Report[i].positive = 1

\* --------------------------------------- reactions without a counted photo
\* the reactions of a (date, city) that the report shows
ReportedReactions(date, city) ==
    LET rows == RowsOf(date, city) IN
    SumOver([i \in rows |-> Report[i].positive + Report[i].negative], rows)

\* the reactions of a (date, city) stored on production topics of its active chats
StoredReactions(date, city) ==
    LET rows == ProductionReactions(date, city) IN
    SumOver([key \in rows |-> reaction_counts[key].positive_count
                                + reaction_counts[key].negative_count], rows)

\* C26: reaction totals reach the report only through the rows that image counts
\* create. For a (date, city) on which no chat of the city has an image count on a
\* topic with a set type there is no row, and the reactions stored that date on the
\* city's production topics are in no row of the report; where there is such an
\* image count, the row shows them all.
C26_ReactionsNeedImageRow ==
    \A date \in Days, city \in Cities :
        /\ TypedActivity(date, city) = {} =>
              /\ RowsOf(date, city) = {}
              /\ ReportedReactions(date, city) = 0
        /\ TypedActivity(date, city) # {} =>
              ReportedReactions(date, city) = StoredReactions(date, city)

\* a like on a production topic of an active chat on a date without any counted
\* photo of the chat's city, while the report has a row of another city
C26_Witness ==
    \E date \in Days, city \in Cities :
        /\ StoredReactions(date, city) > 0
        /\ TypedActivity(date, city) = {}
        /\ RowsOf(date, city) = {}
        /\ Len(Report) > 0
        /\ \A i \in 1..Len(Report) : Report[i].positive = 0 /\ Report[i].negative = 0

\* -------------------------------------------- the type columns of a row
ColumnTopics == {<<100, 0>>, <<100, 5>>}

\* set_topic_type is given TypeInputs: the default, two labels of TOPIC_TYPES and
\* one that is not in the list
NextColumns ==
    \/ AddActiveChat(100) /\ call' = NoCall
    \/ SetChatCity(100, "Springfield") /\ call' = NoCall
    \/ \E key \in ColumnTopics, topic_type \in TypeInputs :
          SetTopicType(key[1], key[2], topic_type) /\ call' = NoCall
    \/ \E key \in ColumnTopics :
          IncrementImageCount(key[1], key[2], 1, MaxReportCount) /\ call' = NoCall
    \/ MidnightMoscow(MaxReportDay) /\ call' = NoCall
    \/ MidnightUTC /\ call' = NoCall

SpecColumns == Init /\ [][NextColumns]_vars

\* the total of the image counts of the date on the topics with a set type of the
\* active chats of the city
TypedTotal(date, city) ==
    LET keys == TypedActivity(date, city) IN
    SumOver([key \in keys |-> get_image_count(image_counts, key[1], key[2], date)], keys)

ColumnSum(row) ==
    LET cols == 1..Len(TOPIC_TYPES) IN SumOver([col \in cols |-> row.counts[col]], cols)

\* C27: in every report row of (date, city) the topic-type columns add up to the
\* total of the image counts of that date over all topics with a set type of the
\* active chats of the city, so a row with positive counts under it has a type
\* column that is not 0.
C27_ColumnsSumToTypedTotal ==
    \A date \in Days, city \in Cities :
        \A i \in RowsOf(date, city) :
            /\ ColumnSum(Report[i]) = TypedTotal(date, city)
            /\ TypedTotal(date, city) > 0 =>
                  \E col \in 1..Len(TOPIC_TYPES) : Report[i].counts[col] # 0

\* where every set type is a label of TOPIC_TYPES the columns do add up
C27_SumWithinList ==
    (\A key \in DOMAIN topic_titles :
        topic_titles[key].type = DEFAULT_TYPE
        \/ \E col \in 1..Len(TOPIC_TYPES) : TOPIC_TYPES[col] = topic_titles[key].type)
    => C27_ColumnsSumToTypedTotal

\* a row of zeros only: the one counted topic has a type outside TOPIC_TYPES
C27_ZeroRow ==
    \E date \in Days :
        /\ get_topic_type(topic_titles, 100, 5) = "Prochee"
        /\ get_image_count(image_counts, 100, 5, date) = 2
        /\ \E i \in RowsOf(date, get_chat_city(active_chats, 100)) :
              ColumnSum(Report[i]) = 0

\* ------------------------------------------------- when the sheet changes
\* C28: a sync cycle clears the sheet only when its report has at least one row.
\* A cycle that finds no dates or no qualifying (date, city) returns without
\* touching the sheet; the sheet changes in the clear, the header write and the
\* batch writes of a cycle with rows and in no other step; a cycle that fails after
\* its clear leaves the sheet cleared or partly written, and it stays so until a
\* cycle writes again.
C28_ClearOnlyWithRows ==
    [][ LET j == jobs["sync"] IN
        /\ call'.op = "sync_read" =>
             /\ sink' = sink
             /\ (get_unique_dates(image_counts) = {} \/ Len(Report) = 0)
                  => jobs'["sync"].pc = "ok"
             /\ jobs'["sync"].pc = "ensure" => Len(jobs'["sync"].rows) >= 1
        /\ call'.op = "sync_clear" => Len(j.rows) >= 1
        /\ sink' # sink =>
             /\ call'.op \in {"sync_clear", "sync_header", "sync_batch"}
             /\ Len(j.rows) >= 1
        /\ (call'.op = "job_raise" /\ j.pc \in {"header", "batch"}) =>
             /\ sink' = sink
             /\ sink # SheetOf(j.rows)
             /\ DOMAIN sink.rows = 2..(j.written + 1)
             /\ sink.header = (j.pc = "batch")
      ]_vars

\* a cycle with one row cleared the sheet, wrote the header and failed at the write
\* of its batch: the sheet holds the header and no row
C28_Witness ==
    /\ call.op = "job_raise"
    /\ jobs["sync"].pc = "error"
    /\ Len(jobs["sync"].rows) = 1
    /\ sink.header
    /\ sink.rows = EmptyTable

\* a cycle over a store without a qualifying row returned and the sheet still holds
\* the row of the cycle before
C28_WitnessUntouched ==
    /\ call.op = "sync_read"
    /\ jobs["sync"].pc = "ok"
    /\ Len(Report) = 0
    /\ sink.header
    /\ DOMAIN sink.rows = {2}

\* ------------------------------------- the reads of a cycle, query by query
\* sync_to_sheets runs in a thread of the executor; each query of the store opens
\* its own connection (_get_connection) and no transaction spans two queries, so
\* the handlers on the event loop can change the store between any two of them.
MaxSeen == 3

\* what the report queries read of the store
Snapshot ==
    [chats |-> active_chats, counts |-> image_counts, topics |-> topic_titles,
     reactions |-> reaction_counts]

Reading == reader.pc \in {"dates", "cities", "cell"}

\* history: the state of the store is the last one recorded in reader.seen
Observed == Reading => reader.seen[Len(reader.seen)] = Snapshot

\* history: the store states since the call began, the present one included
History ==
    IF Reading /\ ~Observed THEN Append(reader.seen, Snapshot) ELSE reader.seen

ReaderFrame ==
    UNCHANGED <<store, clock, COUNT_EACH_PHOTO_IN_ALBUM, inflight, net_active, issued,
                scheduler, jobs, sink>>

\* the cells of a row: one per topic type, then the pair of reaction sums
NumCells == Len(TOPIC_TYPES) + 1

\* the value of the k-th cell of (date, city) in a state of the store
CellAt(s, k, date, city) ==
    IF k <= Len(TOPIC_TYPES)
    THEN get_image_count_by_city_type_date(s.chats, s.topics, s.counts, city,
                                           TOPIC_TYPES[k], date)
    ELSE get_reaction_count_by_city_date(s.chats, s.topics, s.reactions, city, date)

\* the cell read from the store as it was when the call began
CellValueAtStart(k, date, city) == CellAt(reader.seen[1], k, date, city)

\* lines 199-204: the query of a cell, on the store as it is now
CellValue(k, date, city) == CellAt(Snapshot, k, date, city)

\* sync_to_sheets is entered
BeginRead ==
    /\ reader.pc = "idle"
    /\ reader' = [NoReader EXCEPT !.pc = "dates", !.seen = <<Snapshot>>]
    /\ call' = [NoCall EXCEPT !.op = "read_begin"]
    /\ ReaderFrame

\* history only: the present state of the store is recorded
Observe ==
    /\ Reading
    /\ ~Observed
    /\ reader' = [reader EXCEPT !.seen = Append(@, Snapshot)]
    /\ UNCHANGED call
    /\ ReaderFrame

\* the loop over the dates moves on
NextDate(r) ==
    IF Len(r.dates) <= 1
    THEN [r EXCEPT !.pc = "done", !.dates = <<>>, !.cities = <<>>]
    ELSE [r EXCEPT !.pc = "cities", !.dates = Tail(r.dates), !.cities = <<>>]

\* line 180: get_unique_dates; line 182: no dates, return
ReadDates ==
    LET dates == SortDates(get_unique_dates(image_counts)) IN
    /\ reader.pc = "dates"
    /\ Observed
    /\ reader' = IF dates = <<>> THEN [reader EXCEPT !.pc = "done"]
                  ELSE [reader EXCEPT !.pc = "cities", !.dates = dates]
    /\ call' = [NoCall EXCEPT !.op = "read_dates", !.num = Len(dates)]
    /\ ReaderFrame

\* line 193: get_cities_with_data_for_date of the current date
ReadCities ==
    LET cities == SortCities(get_cities_with_data_for_date(
                                active_chats, image_counts, topic_titles,
                                Head(reader.dates)))
    IN
    /\ reader.pc = "cities"
    /\ Observed
    /\ reader' = IF cities = <<>> THEN NextDate(reader)
                  ELSE [reader EXCEPT !.pc = "cell", !.cities = cities, !.cells = <<>>]
    /\ call' = [NoCall EXCEPT !.op = "read_cities", !.num = Len(cities)]
    /\ ReaderFrame

\* lines 199-209: the next cell of the current row is read; after the last cell the
\* row is appended and the loops move on
ReadCell ==
    LET date == Head(reader.dates)
        city == Head(reader.cities)
        k == Len(reader.cells) + 1
        cells == Append(reader.cells, CellValue(k, date, city))
        row == [date |-> _format_date(date),
                city |-> city,
                counts |-> [col \in 1..Len(TOPIC_TYPES) |-> cells[col]],
                positive |-> cells[NumCells][1],
                negative |-> cells[NumCells][2]]
        after == [reader EXCEPT !.rows = Append(@, row), !.cells = <<>>]
    IN
    /\ reader.pc = "cell"
    /\ Observed
    /\ reader' = IF k < NumCells THEN [reader EXCEPT !.cells = cells]
                  ELSE IF Len(reader.cities) > 1
                       THEN [after EXCEPT !.cities = Tail(reader.cities)]
                       ELSE NextDate(after)
    /\ call' = [NoCall EXCEPT !.op = "read_cell", !.num = k]
    /\ ReaderFrame

\* an event is handled while the call reads: at most MaxSeen states of the store
\* in one call
MayHandle == Observed /\ (Reading => Len(reader.seen) < MaxSeen)

SnapshotMessages == {PlainMessage(100, 5), PlainMessage(100, NoThread)}

NextSnapshot ==
    \/ MayHandle /\ cmd_set_chat_active(PlainMessage(100, 5))
    \/ MayHandle /\ cmd_set_chat_inactive(PlainMessage(100, 5))
    \/ \E message \in SnapshotMessages : MayHandle /\ handle_photo(message)
    \/ MayHandle /\ SetTopicType(100, 5, "Chistota") /\ call' = NoCall
    \/ MayHandle /\ SetTopicType(100, 0, PRODUCTION_TYPE) /\ call' = NoCall
    \/ BeginRead
    \/ Observe
    \/ ReadDates
    \/ ReadCities
    \/ ReadCell

SpecSnapshot == Init /\ [][NextSnapshot]_vars

RowDate(row) == CHOOSE date \in Days : _format_date(date) = row.date

RowCell(row, k) ==
    IF k <= Len(TOPIC_TYPES) THEN row.counts[k] ELSE <<row.positive, row.negative>>

Qualifies(s, date, city) ==
    city \in get_cities_with_data_for_date(s.chats, s.counts, s.topics, date)

\* the city qualifies and every cell of the row is the value of its query in s
RowHoldsAt(s, row) ==
    /\ Qualifies(s, RowDate(row), row.city)
    /\ \A k \in 1..NumCells : RowCell(row, k) = CellAt(s, k, RowDate(row), row.city)

RECURSIVE CellsFrom(_, _, _)
CellsFrom(row, k, from) ==
    IF k > NumCells THEN TRUE
    ELSE \E j \in from..Len(History) :
            /\ RowCell(row, k) = CellAt(History[j], k, RowDate(row), row.city)
            /\ CellsFrom(row, k + 1, j)

MaxTasks == 6

NoTasks ==
    [running |-> FALSE, tasks |-> <<>>, sync_task |-> 0, cleanup_task |-> 0,
     stop |-> [pc |-> "idle", pending |-> <<>>]]

InitRestart ==
    /\ active_chats = EmptyTable
    /\ image_counts = EmptyTable
    /\ chat_titles = EmptyTable
    /\ topic_titles = EmptyTable
    /\ reaction_counts = EmptyTable
    /\ message_topics = EmptyTable
    /\ utc_date = 0
    /\ msk_date = 0
    /\ COUNT_EACH_PHOTO_IN_ALBUM = TRUE
    /\ inflight = [caller \in 1..NumCallers |-> Idle]
    /\ call = NoCall
    /\ net_active = {}
    /\ issued = [k \in Chats \X Topics \X Days |-> 0]
    /\ scheduler = NoTasks
    /\ jobs = [job \in Jobs |-> NoJob]
    /\ sink = EmptySheet
    /\ reader = NoReader

RestartFrame ==
    UNCHANGED <<store, clock, COUNT_EACH_PHOTO_IN_ALBUM, inflight, net_active, issued,
                jobs, sink, reader>>

NewTask(kind) == [kind |-> kind, state |-> "created"]

\* start() without its test of _running
start_tasks_unchecked(s) ==
    [s EXCEPT !.running = TRUE,
              !.tasks = @ \o <<NewTask("sync"), NewTask("cleanup")>>,
              !.sync_task = Len(s.tasks) + 1,
              !.cleanup_task = Len(s.tasks) + 2]

\* start(), lines 60-66
start_tasks(s) ==
    IF s.running THEN s
    ELSE [s EXCEPT !.running = TRUE,
                   !.tasks = @ \o <<NewTask("sync"), NewTask("cleanup")>>,
                   !.sync_task = Len(s.tasks) + 1,
                   !.cleanup_task = Len(s.tasks) + 2]

\* start() is called, no stop() being in progress
RestartStart ==
    /\ scheduler.stop.pc = "idle"
    /\ Len(scheduler.tasks) + 2 <= MaxTasks
    /\ scheduler' = start_tasks(scheduler)
    /\ call' = [NoCall EXCEPT !.op = "start", !.ok = ~scheduler.running]
    /\ RestartFrame

\* one step of a task: _sync_loop, lines 26-37, and _cleanup_loop, lines 41-56
task_step(task, running) ==
    IF task.kind = "sync"
    THEN IF task.state \in {"created", "sleep"}
         THEN IF running THEN "await" ELSE "done"
         ELSE "sleep"
    ELSE IF task.state \in {"created", "await"}
         THEN IF running THEN "sleep" ELSE "done"
         ELSE IF running THEN "await" ELSE "done"

RestartTaskStep(t) ==
    /\ scheduler.tasks[t].state \in {"created", "await", "sleep"}
    /\ scheduler' = [scheduler EXCEPT
                       !.tasks[t].state = task_step(scheduler.tasks[t], scheduler.running)]
    /\ call' = [NoCall EXCEPT !.op = "task_step", !.num = t]
    /\ RestartFrame

\* task.cancel() of the first of the tasks, if it has not ended
CancelFirst(tasks, pending) ==
    IF pending = <<>> THEN tasks
    ELSE [tasks EXCEPT ![Head(pending)].state = cancel(@)]

\* stop(), lines 71-75: _running is cleared, the tasks of the for loop are taken
\* from the two attributes, the first is cancelled and awaited; without tasks
\* stop() returns at once
RestartStopBegin ==
    LET pending == SelectSeq(<<scheduler.sync_task, scheduler.cleanup_task>>,
                             LAMBDA t : t # 0)
    IN
    /\ scheduler.stop.pc = "idle"
    /\ scheduler' = [scheduler EXCEPT
                       !.running = FALSE,
                       !.tasks = CancelFirst(@, pending),
                       !.stop = IF pending = <<>> THEN [pc |-> "idle", pending |-> <<>>]
                                ELSE [pc |-> "await", pending |-> pending]]
    /\ call' = [NoCall EXCEPT !.op = "stop"]
    /\ RestartFrame

\* lines 76-81: the awaited task has ended; the next one is cancelled and awaited,
\* or stop() returns
RestartStopResume ==
    LET rest == Tail(scheduler.stop.pending) IN
    /\ scheduler.stop.pc = "await"
    /\ scheduler.tasks[Head(scheduler.stop.pending)].state \in {"done", "cancelled"}
    /\ scheduler' = [scheduler EXCEPT
                       !.tasks = CancelFirst(@, rest),
                       !.stop = IF rest = <<>> THEN [pc |-> "idle", pending |-> <<>>]
                                ELSE [pc |-> "await", pending |-> rest]]
    /\ call' = [NoCall EXCEPT !.op = IF rest = <<>> THEN "stop_return" ELSE "stop_next"]
    /\ RestartFrame

NextRestart ==
    \/ RestartStart
    \/ \E t \in 1..MaxTasks : t <= Len(scheduler.tasks) /\ RestartTaskStep(t)
    \/ RestartStopBegin
    \/ RestartStopResume

SpecRestart == InitRestart /\ [][NextRestart]_vars

AliveTasks(s, kind) ==
    {t \in 1..Len(s.tasks) :
        s.tasks[t].kind = kind /\ s.tasks[t].state \in {"created", "await", "sleep"}}

\* C30: over any sequence of start() and stop() calls at most one sync loop and at
\* most one cleanup loop are alive. start() while running creates no task; start()
\* after a completed stop() creates exactly one sync and one cleanup task, the old
\* ones having ended. A sync task's first step begins a cycle, without a sleep
\* before it; a cleanup task sleeps first, begins a cleanup only on waking from a
\* sleep with the scheduler running, and never once a stop() has begun.
C30_OnePairOfLoops ==
    /\ [](/\ Cardinality(AliveTasks(scheduler, "sync")) <= 1
          /\ Cardinality(AliveTasks(scheduler, "cleanup")) <= 1)
    /\ [][ /\ (call'.op = "start" /\ ~call'.ok) => scheduler' = scheduler
           /\ (call'.op = "start" /\ call'.ok) =>
                /\ AliveTasks(scheduler, "sync") = {}
                /\ AliveTasks(scheduler, "cleanup") = {}
                /\ Len(scheduler'.tasks) = Len(scheduler.tasks) + 2
                /\ AliveTasks(scheduler', "sync") = {scheduler'.sync_task}
                /\ AliveTasks(scheduler', "cleanup") = {scheduler'.cleanup_task}
           /\ \A t \in 1..Len(scheduler.tasks) :
                LET before == scheduler.tasks[t]
                    after == scheduler'.tasks[t]
                IN
                /\ (before.kind = "sync" /\ before.state = "created"
                      /\ after.state # "created")
                     => after.state \in {"await", "cancelled"}
                /\ (before.kind = "cleanup" /\ before.state = "created"
                      /\ after.state # "created")
                     => after.state \in {"sleep", "done", "cancelled"}
                /\ (before.kind = "cleanup" /\ before.state # "await"
                      /\ after.state = "await")
                     => /\ before.state = "sleep"
                        /\ scheduler.running
                        /\ scheduler.stop.pc = "idle"
                        /\ t = scheduler.cleanup_task
         ]_vars

\* start() after a completed stop(): the first pair has ended, a second pair is
\* alive, and its sync task has begun its first cycle
C30_Witness ==
    /\ Len(scheduler.tasks) = 4
    /\ scheduler.running
    /\ scheduler.stop.pc = "idle"
    /\ scheduler.tasks[1].state = "cancelled"
    /\ scheduler.tasks[2].state = "cancelled"
    /\ scheduler.tasks[3].state = "await"
    /\ scheduler.tasks[4].state = "sleep"

\* start() was called while the scheduler was running and created nothing
C30_WitnessSecondStart ==
    /\ call.op = "start"
    /\ ~call.ok
    /\ Len(scheduler.tasks) = 2

====
